---- MODULE Spec2Model ----
(***************************************************************************)
(* Model of the ai-mcp-hub agent runtime: POST /api/chat, the reasoning    *)
(* loop (ReasoningAgent.run), the tool registry (ToolRegistry.executeTool  *)
(* and dispatch), the routing of federated names to the MCP server manager *)
(* and the events the chat handler and the orchestrator emit.              *)
(*                                                                         *)
(* Strings that the code takes apart are sequences of tokens: a tool name  *)
(* is a sequence in which "__" is a token of its own, an SQL text is a     *)
(* sequence of characters.  Strings that the code builds by formatting are *)
(* records that keep the template and its arguments apart.                 *)
(***************************************************************************)
EXTENDS Integers, Sequences, FiniteSets, TLC

\* ------------------------------------------------------------------------
\* Bounds of the exploration
\* ------------------------------------------------------------------------
MaxIter == 2        \* largest maxIterations option a run is started with
MaxCalls == 2       \* most tool calls in one assistant message
MaxTimeline == 2    \* most tool calls the synthetic LLM requests in one run

\* ------------------------------------------------------------------------
\* Program constants
\* ------------------------------------------------------------------------
AllRoles == {"admin", "operator", "dev", "readonly"}
ReadWrite == {"admin", "operator", "dev"}
AdminDev == {"admin", "dev"}

ToolDef(n, p, s) == [name |-> n, permissionRequired |-> p, safeForProduction |-> s]

toolDefinitions ==
  << ToolDef("db_query", ReadWrite, TRUE),
     ToolDef("db_schema", AllRoles, TRUE),
     ToolDef("db_migrate", {"admin"}, FALSE),
     ToolDef("api_call", ReadWrite, TRUE),
     ToolDef("fs_read", AllRoles, TRUE),
     ToolDef("fs_write", ReadWrite, TRUE),
     ToolDef("fs_list", AllRoles, TRUE),
     ToolDef("fs_scaffold", AdminDev, FALSE),
     ToolDef("git_clone", AdminDev, FALSE),
     ToolDef("git_commit", AdminDev, FALSE),
     ToolDef("git_diff", AllRoles, TRUE),
     ToolDef("git_branch", AdminDev, FALSE),
     ToolDef("git_pr", AdminDev, FALSE),
     ToolDef("git_log", AllRoles, TRUE),
     ToolDef("git_status", AllRoles, TRUE),
     ToolDef("redis_get", AllRoles, TRUE),
     ToolDef("redis_set", ReadWrite, TRUE),
     ToolDef("redis_queue", ReadWrite, TRUE),
     ToolDef("redis_pubsub", {"admin", "operator"}, TRUE) >>

\* ------------------------------------------------------------------------
\* Values
\* ------------------------------------------------------------------------
Unset == -1                       \* an optional number that is not set
NoResult == "undefined"           \* ToolCall.result not set
Err(kind, a, b) == [kind |-> kind, a |-> a, b |-> b]
NoError == Err("none", "", << >>) \* ToolCall.error not set

\* strings built by the run: the model's text, or a template with its slots
Text(s) == [kind |-> "text", text |-> s, err |-> NoError, n |-> 0]
AIErrorSwallowed(e) == [kind |-> "text", text |-> "", err |-> NoError, n |-> 0]
AIError(e) == [kind |-> "AI Error: ", text |-> "", err |-> e, n |-> 0]
Completed(k) == [kind |-> "Completed tool operations", text |-> "", err |-> NoError, n |-> k]
ErrorContent(e) == [kind |-> "ERROR: ", text |-> "", err |-> e, n |-> 0]
JsonContent(r) == [kind |-> "JSON", text |-> r, err |-> NoError, n |-> 0]
SystemPrompt == [kind |-> "system prompt", text |-> "", err |-> NoError, n |-> 0]

\* JavaScript truthiness of a string: only the empty string is falsy
IsEmptyString(c) == c.kind = "text" /\ c.text = ""

\* ------------------------------------------------------------------------
\* Names, arguments and the SQL placeholder guard
\* ------------------------------------------------------------------------
Name(t) == << t >>                               \* a built-in name: one token
McpName(server, tool) == << "mcp", "__" >> \o server \o << "__" >> \o tool

\* toolName.startsWith('mcp__')
StartsWithMcp(name) == Len(name) >= 2 /\ name[1] = "mcp" /\ name[2] = "__"

NoSql == << "u", "n", "d", "e", "f", "i", "n", "e", "d" >>   \* String(undefined)
NoAction == "undefined"
Args(sql, action) == [sql |-> sql, action |-> action]
NoArgs == Args(NoSql, NoAction)

LowerCase == {"a", "b", "c", "d", "e", "f", "g", "h", "i", "j", "k", "l", "m",
              "n", "o", "p", "q", "r", "s", "t", "u", "v", "w", "x", "y", "z"}
UpperCase == {"A", "B", "C", "D", "E", "F", "G", "H", "I", "J", "K", "L", "M",
              "N", "O", "P", "Q", "R", "S", "T", "U", "V", "W", "X", "Y", "Z"}

\* /\{[a-zA-Z_]+\}/.test(sql)
HasPlaceholder(sql) ==
  \E i \in 1..Len(sql) : \E j \in (i + 2)..Len(sql) :
     /\ sql[i] = "{"
     /\ sql[j] = "}"
     /\ \A k \in (i + 1)..(j - 1) : sql[k] \in LowerCase \cup UpperCase \cup {"_"}

\* ------------------------------------------------------------------------
\* ToolRegistry
\* ------------------------------------------------------------------------
FindTool(toolName) ==
  {i \in 1..Len(toolDefinitions) : toolName = Name(toolDefinitions[i].name)}

\* a registry that forgets the role: every catalogued tool may be used
canUseToolAnyRole(userRole, toolName) ==
  FindTool(toolName) # {}
canUseTool(userRole, toolName) ==
  /\ FindTool(toolName) # {}
  /\ LET tool == toolDefinitions[CHOOSE i \in FindTool(toolName) :
                                   \A j \in FindTool(toolName) : i <= j]
     IN  userRole \in tool.permissionRequired

\* What dispatch does for a tool name: throw, forward to the MCP manager
\* under a federated name, or call a connector of this process.
Throw(e) == [kind |-> "throw", error |-> e, target |-> << >>]
ViaManager(fullName) == [kind |-> "manager", error |-> NoError, target |-> fullName]
ViaConnector(c) == [kind |-> "connector", error |-> NoError, target |-> Name(c)]

dispatch(toolName, args) ==
  IF Len(toolName) # 1 THEN Throw(Err("Unknown tool", "", toolName))
  ELSE CASE toolName[1] = "db_query" ->
              IF HasPlaceholder(args.sql)
              THEN Throw(Err("SQL contains placeholder", "", << >>))
              ELSE ViaManager(McpName(Name("mysql"), Name("query")))
         [] toolName[1] = "db_schema" -> ViaManager(McpName(Name("mysql"), Name("list_tables")))
         [] toolName[1] = "db_migrate" -> ViaManager(McpName(Name("mysql"), Name("query")))
         [] toolName[1] = "api_call" -> ViaConnector("callApi")
         [] toolName[1] = "fs_read" -> ViaManager(McpName(Name("filesystem"), Name("read_file")))
         [] toolName[1] = "fs_write" -> ViaManager(McpName(Name("filesystem"), Name("write_file")))
         [] toolName[1] = "fs_list" -> ViaManager(McpName(Name("filesystem"), Name("list_directory")))
         [] toolName[1] = "fs_scaffold" -> ViaConnector("scaffoldProject")
         [] toolName[1] = "git_clone" -> ViaConnector("cloneRepo")
         [] toolName[1] = "git_commit" -> ViaConnector("commitChanges")
         [] toolName[1] = "git_diff" -> ViaConnector("getDiff")
         [] toolName[1] = "git_branch" ->
              IF args.action = "create" THEN ViaConnector("createBranch")
              ELSE ViaConnector("listBranches")
         [] toolName[1] = "git_pr" -> ViaConnector("pushBranch")
         [] toolName[1] = "git_log" -> ViaConnector("getLog")
         [] toolName[1] = "git_status" -> ViaConnector("getStatus")
         [] toolName[1] = "redis_get" -> ViaManager(McpName(Name("redis"), Name("get")))
         [] toolName[1] = "redis_set" -> ViaManager(McpName(Name("redis"), Name("set")))
         [] toolName[1] = "redis_queue" ->
              CASE args.action = "push" -> ViaManager(McpName(Name("redis"), Name("rpush")))
                [] args.action = "pop" -> ViaManager(McpName(Name("redis"), Name("lpop")))
                [] args.action = "status" -> ViaManager(McpName(Name("redis"), Name("llen")))
                [] args.action = "peek" -> ViaManager(McpName(Name("redis"), Name("lrange")))
                [] OTHER -> Throw(Err("Unknown queue action", args.action, << >>))
         [] toolName[1] = "redis_pubsub" -> ViaManager(McpName(Name("redis"), Name("publish")))
         [] toolName[1] = "web_search" -> ViaConnector("webSearch")
         [] toolName[1] = "web_scrape" -> ViaConnector("webScrape")
         [] toolName[1] = "web_fetch_json" -> ViaConnector("fetchJson")
         [] OTHER -> Throw(Err("Unknown tool", "", toolName))

\* ------------------------------------------------------------------------
\* MCPServerManager.executeTool: parse mcp__<serverId>__<toolName> and route
\* ------------------------------------------------------------------------
ServerIds == {Name("mysql")}

ToChild(server, tool) == [kind |-> "child", error |-> NoError, target |-> McpName(server, tool),
                          server |-> server, tool |-> tool]
ManagerThrow(e) == [kind |-> "throw", error |-> e, target |-> << >>,
                    server |-> << >>, tool |-> << >>]

managerExecuteTool(fullName, conns) ==
  LET withoutPrefix == SubSeq(fullName, 3, Len(fullName))
      doubles == {i \in 1..Len(withoutPrefix) : withoutPrefix[i] = "__"}
  IN  IF doubles = {}
      THEN ManagerThrow(Err("Invalid MCP tool name", "", fullName))
      ELSE LET firstDouble == CHOOSE i \in doubles : \A j \in doubles : i <= j
               serverId == SubSeq(withoutPrefix, 1, firstDouble - 1)
               toolName == SubSeq(withoutPrefix, firstDouble + 1, Len(withoutPrefix))
           IN  IF serverId \in DOMAIN conns /\ conns[serverId] = "connected"
               THEN ToChild(serverId, toolName)
               ELSE ManagerThrow(Err("MCP server is not connected", "", serverId))

\* What executeTool and runMcpTool will do with a request, given the role
\* of the registry and the state of the manager's clients.
Denied(userRole, toolName) ==
  [kind |-> "denied", error |-> Err("Permission denied", userRole, toolName), target |-> << >>]
Flat(m) == [kind |-> m.kind, error |-> m.error, target |-> m.target]

executeToolPlan(userRole, toolName, args, conns) ==
  IF ~canUseTool(userRole, toolName) THEN Denied(userRole, toolName)
  ELSE LET d == dispatch(toolName, args)
       IN  IF d.kind = "manager" THEN Flat(managerExecuteTool(d.target, conns)) ELSE d

runMcpToolPlan(fullName, args, conns) == Flat(managerExecuteTool(fullName, conns))

\* reasoning.ts: toolName.startsWith('mcp__') ? runMcpTool : registry.executeTool
RoutePlan(userRole, r, conns) ==
  IF StartsWithMcp(r.name) THEN runMcpToolPlan(r.name, r.args, conns)
  ELSE executeToolPlan(userRole, r.name, r.args, conns)

\* the calls a request makes below the reasoning loop, outermost first
Layer(l, t) == [layer |-> l, target |-> t]
Layers(r, plan) ==
  IF StartsWithMcp(r.name)
  THEN << Layer("manager", r.name) >>
       \o (IF plan.kind = "child" THEN << Layer("child", plan.target) >> ELSE << >>)
  ELSE IF plan.kind = "denied" THEN << >>
  ELSE << Layer("dispatch", r.name) >>
       \o (IF dispatch(r.name, r.args).kind = "manager"
           THEN << Layer("manager", dispatch(r.name, r.args).target) >> ELSE << >>)
       \o (IF plan.kind \in {"child", "connector"}
           THEN << Layer(plan.kind, plan.target) >> ELSE << >>)

\* ------------------------------------------------------------------------
\* The synthetic LLM and the inputs of a chat request
\* ------------------------------------------------------------------------
Request(n, a) == [name |-> n, args |-> a]
PlainSql == << "S", "E", "L", " ", "1" >>
TemplateSql == << "V", "A", "L", " ", "{", "g", "o", "l", "d", "}" >>

LlmRequests ==
  { Request(Name("db_query"), Args(PlainSql, NoAction)),
    Request(Name("db_query"), Args(TemplateSql, NoAction)),
    Request(Name("db_migrate"), Args(PlainSql, NoAction)),
    Request(Name("api_call"), NoArgs),
    Request(McpName(Name("mysql"), Name("query")), Args(PlainSql, NoAction)),
    Request(Name("no_such_tool"), NoArgs) }

ToolCallLists == UNION {[1..n -> LlmRequests] : n \in 1..MaxCalls}
LlmContents == {"", "Hi"}
LlmFailure == Err("timeout of 60000ms exceeded", "", << >>)
ChildFailure == Err("Request timeout: tools/call", "", << >>)
ConnectorFailure == Err("connect ECONNREFUSED", "", << >>)

Modes == {"single", "multi"}
\* the roles chat requests are sent with: three valid ones and an invalid one
RequestRoles == {"admin", "operator", "readonly", "root"}
RequestMessages == {"", "hello"}

\* rbac.ts isValidRole
isValidRoleAnyText(role) == role # ""
isValidRole(role) == role \in {"admin", "operator", "dev", "readonly"}

\* ------------------------------------------------------------------------
\* State
\* ------------------------------------------------------------------------
VARIABLES
  pc,                  \* position of the chat request
  req,                 \* body of the request and the options of the run
  productionSafeMode,  \* config.productionSafeMode
  clients,             \* MCPServerManager.clients: server id -> state of the client
  session,             \* the SessionMemory of the request
  ollamaTools,         \* names of the tools offered to the LLM
  messages,            \* the conversation sent to the LLM
  iteration,           \* loop counter of run()
  finalResponse,       \* local finalResponse of run()
  timeline,            \* the ExecutionTimeline of the run
  pending,             \* assistantMessage.tool_calls of the current turn
  turnDone,            \* number of tool calls of the current turn already executed
  cur,                 \* the ToolCall whose dispatch is awaited
  llmCalls,            \* number of ollamaChat calls made by run()
  llmPending,          \* number of ollamaChat calls of run() not yet answered
  toolsRunning,        \* ids of the ToolCalls whose execution is awaited
  backend,             \* calls made below the loop: dispatch, manager, child, connector
  events,              \* events emitted to the session's room, in order
  http,                \* the HTTP response
  metrics,             \* MetricsStore counters
  clock,               \* Date.now()
  nextId               \* source of fresh ToolCall ids (uuidv4)

chatVars == << pc, req, productionSafeMode, clients, session, ollamaTools, messages,
           iteration, finalResponse, timeline, pending, turnDone, cur, llmCalls, llmPending,
           toolsRunning, backend, events, http, metrics, clock, nextId >>

\* a single executeTool call on a registry, outside any run
VARIABLES
  probe                \* the call: its inputs, its position, the ToolCall and what it reached

\* the session store and the chat requests that run on it
VARIABLES
  sessions,            \* memory.ts sessions: the ids the Map holds
  heap,                \* the SessionMemory objects created so far, by id
  runs,                \* the chat requests in flight
  dateNow,             \* Date.now() as the session store sees it
  chats                \* number of chat requests accepted

storeVars == << sessions, heap, runs, dateNow, chats >>

\* one MCPServerClient and the child process it talks to
VARIABLES
  proc,                \* MCPServerClient.proc
  child,               \* the child process: not spawned, running, exited or killed
  lastLine,            \* the last line read from the child's stdout
  connected,           \* MCPServerClient.connected
  tools,               \* MCPServerClient.tools
  pendingTable,        \* MCPServerClient.pending: request id -> method
  idCounter,           \* MCPServerClient.idCounter
  stdin,               \* the lines written to the child, in order
  promises,            \* the promise of each request issued: pending, fulfilled or failed
  timers,              \* the setTimeout callbacks not yet run, with their deadlines
  connectPc,           \* position of connect()
  registered,          \* the manager holds this client in its clients map
  time                 \* Date.now() as the client sees it

clientVars == << proc, child, lastLine, connected, tools, pendingTable, idCounter, stdin, promises, timers,
                 connectPc, registered, time >>

\* one OrchestratorAgent.run, with the planner and the reviewer it calls
VARIABLES
  orch                 \* the run: its position, its inputs, the plan, the review, the logs

\* the MetricsStore singleton
VARIABLES
  metricsStore,        \* its counters and its recentSessions list
  recorded             \* number of recordRequest calls made so far

metricsVars == << metricsStore, recorded >>

\* the MCPServerManager with its server configs and the connects in flight
VARIABLES
  configs,             \* MCPServerManager.configs, in order
  clientIds,           \* the keys of MCPServerManager.clients
  errors,              \* MCPServerManager.errors: id -> message, "" for no entry
  inflight,            \* id -> number of connectServer calls of add, update, reconnect awaiting connect()
  allPc,               \* connectAll: index of the config whose connectServer it awaits
  allState,            \* connectAll: idle, awaiting or done
  attempted,           \* ids connectAll has called connectServer for
  outcome,             \* id -> how the last handshake with its child ended
  managerCalls,        \* number of add, update, remove and reconnect calls made
  nextUuid             \* the id the next addServer gives

managerVars == << configs, clientIds, errors, inflight, allPc, allState, attempted, outcome,
                  managerCalls, nextUuid >>

\* the manager with one client of its map and the child of that client
VARIABLES
  fed                  \* the client's fields, its child, the map entry, the calls made

\* one ReasoningAgent.run seen from the LLM: the message list it sends
VARIABLES
  conv                 \* the session history, the list, the tool calls of the turn

\* one ollamaChatStream call and the response stream it reads
VARIABLES
  stream               \* the response text, what was delivered, buffer and fullContent

\* one dispatch of a git tool that takes a repoPath argument
VARIABLES
  repo                 \* the argument, the file system entry it names, what the connector got

\* the child processes the manager spawns for one server id
VARIABLES
  kids                 \* each connectServer call with its child, and the client of the map

otherVars == << fed, conv, stream, repo, kids >>

restVars == << orch, metricsVars, managerVars, otherVars >>

outsideChat == << probe, storeVars, clientVars, restVars >>
vars == << chatVars, probe, storeVars, clientVars, restVars >>

NoRequest == [message |-> "", role |-> "", mode |-> "", maxIterations |-> 0]
NoSession == [sessionId |-> "", role |-> "", messages |-> << >>,
              createdAt |-> Unset, updatedAt |-> Unset]
NoTimeline == [sessionId |-> "", toolCalls |-> << >>, finalResponse |-> Text(""),
               totalDurationMs |-> 0, startedAt |-> Unset, finishedAt |-> Unset]
NoCall == [id |-> 0, toolName |-> << >>, args |-> NoArgs, status |-> "none",
           startedAt |-> Unset, result |-> NoResult, error |-> NoError,
           finishedAt |-> Unset, durationMs |-> Unset]
NoHttp == [status |-> 0, success |-> FALSE]

\* no chat request has been received
ChatIdle ==
  /\ pc = "idle"
  /\ req = NoRequest
  /\ session = NoSession
  /\ ollamaTools = {}
  /\ messages = << >>
  /\ iteration = 0
  /\ finalResponse = Text("")
  /\ timeline = NoTimeline
  /\ pending = << >>
  /\ turnDone = 0
  /\ cur = NoCall
  /\ llmCalls = 0
  /\ llmPending = 0
  /\ toolsRunning = {}
  /\ backend = << >>
  /\ events = << >>
  /\ http = NoHttp
  /\ metrics = [totalRequests |-> 0, totalToolCalls |-> 0]
  /\ clock = 0
  /\ nextId = 1

\* no executeTool call outside a run
NoProbe == [phase |-> "none", role |-> "", name |-> << >>, args |-> NoArgs,
            call |-> NoCall, reached |-> << >>]

\* the session store of a process that has served nothing yet
RunSlots == {1, 2}  \* the chat requests in flight: two handlers
NoRun == [phase |-> "free", given |-> 0, session |-> 0, prompt |-> "",
          mode |-> "", role |-> "", registryRole |-> "", offered |-> {}, startLen |-> 0,
          alone |-> TRUE, toolCalls |-> << >>, response |-> Text("")]
StoreIdle ==
  /\ sessions = {}
  /\ heap = << >>
  /\ runs = [r \in RunSlots |-> NoRun]
  /\ dateNow = 0
  /\ chats = 0

\* an MCPServerClient just constructed
NoLine == [id |-> 0, kind |-> "none"]
ClientIdle ==
  /\ proc = "null"
  /\ child = "none"
  /\ lastLine = NoLine
  /\ connected = FALSE
  /\ tools = {}
  /\ pendingTable = {}
  /\ idCounter = 1
  /\ stdin = << >>
  /\ promises = << >>
  /\ timers = {}
  /\ connectPc = "idle"
  /\ registered = FALSE
  /\ time = 0

\* no orchestrator run
NoPlan == [goal |-> "", complexity |-> "", estimatedTools |-> << >>, steps |-> << >>]
NoReview == [passed |-> FALSE, score |-> 0, path |-> "none"]
NoOutput == [kind |-> "none"]
NoOrch == [phase |-> "idle", prompt |-> "", startTime |-> 0, planOutput |-> NoOutput,
           plan |-> NoPlan, successes |-> 0, errors |-> 0, reviewOutput |-> NoOutput,
           review |-> NoReview, agentLogs |-> << >>]
\* a MetricsStore just constructed
EmptyStore == [counters |-> [totalRequests |-> 0, totalToolCalls |-> 0],
               recentSessions |-> << >>]
MetricsIdle ==
  /\ metricsStore = EmptyStore
  /\ recorded = 0
\* a manager without configs
MaxManagerCalls == 3   \* most add, update, remove and reconnect calls
LoadedConfigs == 2     \* configs read from mcp-servers.json
ConfigIds == 1..(LoadedConfigs + MaxManagerCalls)
ManagerLoaded(cfgs) ==
  /\ configs = cfgs
  /\ clientIds = {}
  /\ errors = [id \in ConfigIds |-> ""]
  /\ inflight = [id \in ConfigIds |-> 0]
  /\ allPc = 0
  /\ allState = "idle"
  /\ attempted = {}
  /\ outcome = [id \in ConfigIds |-> "none"]
  /\ managerCalls = 0
  /\ nextUuid = LoadedConfigs + 1
ManagerIdle == ManagerLoaded(<< >>)
\* a manager whose map is empty, before connectServer is called
NoFed == [pc |-> "idle", child |-> "none", proc |-> "null", connected |-> FALSE,
          tools |-> {}, inMap |-> FALSE, idCounter |-> 1, pending |-> {},
          received |-> {}, out |-> {}, writes |-> 0, executes |-> 0,
          lastExecute |-> "none"]
NoConv == [pc |-> "idle", history |-> << >>, prompt |-> "", maxIterations |-> 0,
           iteration |-> 0, messages |-> << >>, llmCalls |-> 0, sent |-> << >>,
           calls |-> << >>, done |-> << >>]
NoStream == [state |-> "none", text |-> << >>, fragments |-> << >>, pos |-> 0,
             buffer |-> << >>, fullContent |-> << >>, tokens |-> << >>,
             result |-> << >>]
NoRepo == [state |-> "none", provided |-> [kind |-> "undefined"], tool |-> "",
           passed |-> << >>, error |-> NoError]
NoKids == [calls |-> << >>, client |-> 0]
OtherIdle ==
  /\ fed = NoFed
  /\ conv = NoConv
  /\ stream = NoStream
  /\ repo = NoRepo
  /\ kids = NoKids
RestIdle ==
  /\ orch = NoOrch
  /\ MetricsIdle
  /\ ManagerIdle
  /\ OtherIdle

Init ==
  /\ ChatIdle
  /\ productionSafeMode \in BOOLEAN
  /\ clients \in [ServerIds -> {"none", "connected"}]   \* connectAll failed or succeeded
  /\ probe = NoProbe
  /\ StoreIdle
  /\ ClientIdle
  /\ RestIdle

\* ------------------------------------------------------------------------
\* Pieces of the handlers
\* ------------------------------------------------------------------------
Event(name, id) == [event |-> name, call |-> id]
EmitInFront(evs, name) == << Event(name, 0) >> \o evs
Emit(evs, name) == Append(evs, Event(name, 0))

\* one tool:executed per ToolCall of the timeline, in timeline order
ToolEventsReversed(calls) ==
  [i \in 1..Len(calls) |-> Event("tool:executed", calls[Len(calls) + 1 - i].id)]
ToolEvents(calls) == [i \in 1..Len(calls) |-> Event("tool:executed", calls[i].id)]

\* reasoning.ts availableTools filter (no allowedTools option is passed)
availableTools(role, safeMode) ==
  {i \in 1..Len(toolDefinitions) :
     /\ role \in toolDefinitions[i].permissionRequired
     /\ ~(safeMode /\ ~toolDefinitions[i].safeForProduction)}

\* the tools the connected servers expose (discovered at connect)
ServerTools(server) == {Name("query"), Name("list_tables")}
mcpOllamaTools(conns) ==
  UNION {{McpName(sv, t) : t \in ServerTools(sv)} :
           sv \in {x \in DOMAIN conns : conns[x] = "connected"}}

Msg(role, content, calls) == [role |-> role, content |-> content, tool_calls |-> calls]

\* this.memory.messages.slice(-8)
HistoryWindow == 8
recentHistoryOldest(msgs) ==
  SubSeq(msgs, 1, IF Len(msgs) > HistoryWindow THEN HistoryWindow ELSE Len(msgs))
recentHistory(msgs) ==
  SubSeq(msgs, IF Len(msgs) > HistoryWindow THEN Len(msgs) - HistoryWindow + 1 ELSE 1,
         Len(msgs))

\* run(): everything before the loop
RunSetup(sess, userPrompt, now) ==
  /\ timeline' = [NoTimeline EXCEPT !.sessionId = sess.sessionId, !.startedAt = now]
  /\ ollamaTools' = {Name(toolDefinitions[i].name) : i \in availableTools(sess.role, productionSafeMode)}
                      \cup mcpOllamaTools(clients)
  /\ messages' = << Msg("system", SystemPrompt, << >>) >>
                   \o [i \in 1..Len(recentHistory(sess.messages)) |->
                         Msg(recentHistory(sess.messages)[i].role,
                             recentHistory(sess.messages)[i].content, << >>)]
                   \o << Msg("user", Text(userPrompt), << >>) >>
  /\ session' = [sess EXCEPT !.messages =
                   Append(@, [role |-> "user", content |-> Text(userPrompt),
                              toolCalls |-> << >>, timestamp |-> now])]
  /\ iteration' = 0
  /\ finalResponse' = Text("")

\* if (!finalResponse) finalResponse = `Completed ${timeline.toolCalls.length} ...`
FinalTextNoFallback(fr, k) == fr
FinalText(fr, k) == IF IsEmptyString(fr) THEN Completed(k) ELSE fr

\* run(): everything after the loop
Finalize(fr, now) ==
  LET final == FinalText(fr, Len(timeline.toolCalls))
  IN  /\ finalResponse' = final
      /\ timeline' = [timeline EXCEPT !.finalResponse = final, !.finishedAt = now,
                                      !.totalDurationMs = now - timeline.startedAt]
      /\ session' = [session EXCEPT !.messages =
                       Append(@, [role |-> "assistant", content |-> final,
                                  toolCalls |-> timeline.toolCalls, timestamp |-> now]),
                                    !.updatedAt = now]
      /\ pc' = "ran"

\* memory.ts createSession
createSession(role, now) ==
  [sessionId |-> "s1", role |-> role, messages |-> << >>, createdAt |-> now, updatedAt |-> now]

\* metrics/store.ts recordRequest
recordRequest(m, tl) ==
  [totalRequests |-> m.totalRequests + 1,
   totalToolCalls |-> m.totalToolCalls + Len(tl.toolCalls)]

\* for (const toolCallRequest of assistantMessage.tool_calls): the index of
\* the request taken after k of n have been executed
ForOfLast(k, n) == n - k
ForOf(k, n) == k + 1

\* the loop condition of run()
LoopGuardInclusive(i, maxIterations) == i <= maxIterations
LoopGuard(i, maxIterations) == i < maxIterations

\* the tool message appended for a finished ToolCall
ToolMessageContent(call) ==
  IF call.status = "success" THEN JsonContent(call.result) ELSE ErrorContent(call.error)

\* where the run continues after the k-th of the n tool calls of a turn: the
\* for-of loop takes the next request whatever the status of the call
AfterCallStopOnError(call, k, n) ==
  IF k = n \/ call.status = "error" THEN "loop" ELSE "tools"
AfterCall(call, k, n) == IF k = n THEN "loop" ELSE "tools"

\* timeline.toolCalls.push(toolCall); messages.push({role: 'tool', ...})
RecordCall(call) ==
  /\ timeline' = [timeline EXCEPT !.toolCalls = Append(@, call)]
  /\ messages' = Append(messages, Msg("tool", ToolMessageContent(call), << >>))
  /\ turnDone' = turnDone + 1
  /\ pc' = AfterCall(call, turnDone + 1, Len(pending))

\* ------------------------------------------------------------------------
\* Actions
\* ------------------------------------------------------------------------
\* POST /api/chat up to its first await
ChatRequest(message, role, mode, maxIterations) ==
  /\ pc = "idle"
  /\ req' = [message |-> message, role |-> role, mode |-> mode, maxIterations |-> maxIterations]
  /\ IF message = "" \/ ~isValidRole(role)
     THEN /\ http' = [status |-> 400, success |-> FALSE]
          /\ pc' = "done"
          /\ UNCHANGED << session, events, timeline, ollamaTools, messages, iteration, finalResponse >>
     ELSE /\ http' = http
          /\ IF mode = "multi"
             THEN /\ events' = Emit(Emit(events, "agent:start"), "agent:planning")
                  /\ session' = createSession(role, clock)
                  /\ pc' = "planning"
                  /\ UNCHANGED << timeline, ollamaTools, messages, iteration, finalResponse >>
             ELSE /\ events' = Emit(events, "agent:start")
                  /\ RunSetup(createSession(role, clock), message, clock)
                  /\ pc' = "loop"
  /\ UNCHANGED << productionSafeMode, clients, pending, turnDone, cur, llmCalls, llmPending,
                  toolsRunning, backend, metrics, clock, nextId >>
  /\ UNCHANGED outsideChat

\* OrchestratorAgent.run: createPlan has answered; start the execution phase
PlanReady ==
  /\ pc = "planning"
  /\ clock' = clock + 1
  /\ events' = Emit(Emit(events, "agent:plan_ready"), "agent:executing")
  /\ RunSetup(session, req.message, clock + 1)
  /\ pc' = "loop"
  /\ UNCHANGED << req, productionSafeMode, clients, pending, turnDone, cur, llmCalls,
                  llmPending, toolsRunning, backend, http, metrics, nextId >>
  /\ UNCHANGED outsideChat

\* while (iteration < maxIterations) { iteration++; await ollamaChat(...) }
LlmCall ==
  /\ pc = "loop"
  /\ LoopGuard(iteration, req.maxIterations)
  /\ iteration' = iteration + 1
  /\ llmCalls' = llmCalls + 1
  /\ llmPending' = llmPending + 1
  /\ pc' = "llm"
  /\ UNCHANGED << req, productionSafeMode, clients, session, ollamaTools, messages,
                  finalResponse, timeline, pending, turnDone, cur, toolsRunning, backend,
                  events, http, metrics, clock, nextId >>
  /\ UNCHANGED outsideChat

\* the loop condition fails: finalize with whatever finalResponse holds
LoopExit ==
  /\ pc = "loop"
  /\ ~LoopGuard(iteration, req.maxIterations)
  /\ Finalize(finalResponse, clock)
  /\ UNCHANGED << req, productionSafeMode, clients, ollamaTools, messages, iteration,
                  pending, turnDone, cur, llmCalls, llmPending, toolsRunning, backend,
                  events, http, metrics, clock, nextId >>
  /\ UNCHANGED outsideChat

\* POST /api/chat, catch block: emitUpdate('agent:error'); fail(res, ..., 500)
CaughtAnswersOk(h) == [status |-> 200, success |-> TRUE]
Caught(h) == [status |-> 500, success |-> FALSE]

\* ollamaChat resolves with a body that has no message: the read of
\* assistantMessage.tool_calls throws outside the try of the loop, run()
\* rejects, in multi mode through OrchestratorAgent.run, and the handler's
\* catch block answers
LlmMalformed ==
  /\ pc = "llm"
  /\ llmPending' = llmPending - 1
  /\ clock' = clock + 1
  /\ events' = Emit(events, "agent:error")
  /\ http' = Caught(http)
  /\ pc' = "done"
  /\ UNCHANGED << req, productionSafeMode, clients, session, ollamaTools, messages,
                  iteration, finalResponse, timeline, pending, turnDone, cur, llmCalls,
                  toolsRunning, backend, metrics, nextId >>
  /\ UNCHANGED outsideChat

\* ollamaChat rejects
LlmError ==
  /\ pc = "llm"
  /\ llmPending' = llmPending - 1
  /\ clock' = clock + 1
  /\ Finalize(AIError(LlmFailure), clock + 1)
  /\ UNCHANGED << req, productionSafeMode, clients, ollamaTools, messages, iteration,
                  pending, turnDone, cur, llmCalls, toolsRunning, backend, events, http,
                  metrics, nextId >>
  /\ UNCHANGED outsideChat

\* ollamaChat answers with a message without tool calls
LlmFinal(content) ==
  /\ pc = "llm"
  /\ llmPending' = llmPending - 1
  /\ clock' = clock + 1
  /\ messages' = Append(messages, Msg("assistant", Text(content), << >>))
  /\ Finalize(Text(content), clock + 1)
  /\ UNCHANGED << req, productionSafeMode, clients, ollamaTools, iteration, pending,
                  turnDone, cur, llmCalls, toolsRunning, backend, events, http, metrics,
                  nextId >>
  /\ UNCHANGED outsideChat

\* ollamaChat answers with a message that carries tool calls
LlmToolCalls(calls) ==
  /\ pc = "llm"
  /\ Len(timeline.toolCalls) + Len(calls) <= MaxTimeline
  /\ llmPending' = llmPending - 1
  /\ clock' = clock + 1
  /\ messages' = Append(messages, Msg("assistant", Text(""), calls))
  /\ pending' = calls
  /\ turnDone' = 0
  /\ pc' = "tools"
  /\ UNCHANGED << req, productionSafeMode, clients, session, ollamaTools, iteration,
                  finalResponse, timeline, cur, llmCalls, toolsRunning, backend, events,
                  http, metrics, nextId >>
  /\ UNCHANGED outsideChat

\* the next tool call of the turn: runMcpTool or registry.executeTool up to
\* the await of the child's reply or of the connector
ToolStart ==
  /\ pc = "tools"
  /\ LET r == pending[ForOf(turnDone, Len(pending))]
         plan == RoutePlan(session.role, r, clients)
         layers == Layers(r, plan)
         call == [NoCall EXCEPT !.id = nextId, !.toolName = r.name, !.args = r.args,
                                !.status = "running", !.startedAt = clock]
     IN  /\ nextId' = nextId + 1
         /\ backend' = backend \o [i \in 1..Len(layers) |->
                                     [layer |-> layers[i].layer, target |-> layers[i].target,
                                      call |-> nextId]]
         /\ IF plan.kind \in {"denied", "throw"}
            THEN /\ RecordCall([call EXCEPT !.status = "error", !.error = plan.error,
                                            !.finishedAt = clock, !.durationMs = 0])
                 /\ UNCHANGED << cur, toolsRunning >>
            ELSE /\ cur' = call
                 /\ toolsRunning' = toolsRunning \cup {nextId}
                 /\ pc' = "toolwait"
                 /\ UNCHANGED << timeline, messages, turnDone >>
  /\ UNCHANGED << req, productionSafeMode, clients, session, ollamaTools, iteration,
                  finalResponse, pending, llmCalls, llmPending, events, http, metrics, clock >>
  /\ UNCHANGED outsideChat

\* call.finishedAt = new Date(); call.durationMs = Date.now() - start
FinishedUnstamped(call, now) == call
Finished(call, now) ==
  [call EXCEPT !.finishedAt = now, !.durationMs = now - call.startedAt]

\* the child's reply, its timeout, or the connector's result arrives
ToolFinish(ok) ==
  /\ pc = "toolwait"
  /\ clock' = clock + 1
  /\ toolsRunning' = toolsRunning \ {cur.id}
  /\ cur' = NoCall
  /\ LET failure == IF backend[Len(backend)].layer = "child" THEN ChildFailure
                    ELSE ConnectorFailure
         done == Finished(cur, clock + 1)
     IN  IF ok THEN RecordCall([done EXCEPT !.status = "success", !.result = "ok"])
         ELSE RecordCall([done EXCEPT !.status = "error", !.error = failure])
  /\ UNCHANGED << req, productionSafeMode, clients, session, ollamaTools, iteration,
                  finalResponse, pending, llmCalls, llmPending, backend, events, http,
                  metrics, nextId >>
  /\ UNCHANGED outsideChat

\* POST /api/chat, single mode, after agent.run has returned
RunReturnSingle ==
  /\ pc = "ran"
  /\ req.mode = "single"
  /\ metrics' = recordRequest(metrics, timeline)
  /\ events' = Emit(events \o ToolEvents(timeline.toolCalls), "agent:done")
  /\ http' = [status |-> 200, success |-> TRUE]
  /\ pc' = "done"
  /\ UNCHANGED << req, productionSafeMode, clients, session, ollamaTools, messages,
                  iteration, finalResponse, timeline, pending, turnDone, cur, llmCalls,
                  llmPending, toolsRunning, backend, clock, nextId >>
  /\ UNCHANGED outsideChat

\* OrchestratorAgent.run after reasoningAgent.run has returned, up to the
\* await of the reviewer
RunReturnMulti ==
  /\ pc = "ran"
  /\ req.mode = "multi"
  /\ events' = Emit(events \o ToolEvents(timeline.toolCalls), "agent:reviewing")
  /\ pc' = "reviewing"
  /\ UNCHANGED << req, productionSafeMode, clients, session, ollamaTools, messages,
                  iteration, finalResponse, timeline, pending, turnDone, cur, llmCalls,
                  llmPending, toolsRunning, backend, http, metrics, clock, nextId >>
  /\ UNCHANGED outsideChat

\* reviewExecution has answered; the orchestrator returns and the handler ends
ReviewDone ==
  /\ pc = "reviewing"
  /\ clock' = clock + 1
  /\ metrics' = recordRequest(metrics, timeline)
  /\ events' = Emit(Emit(events, "agent:review_done"), "agent:done")
  /\ http' = [status |-> 200, success |-> TRUE]
  /\ pc' = "done"
  /\ UNCHANGED << req, productionSafeMode, clients, session, ollamaTools, messages,
                  iteration, finalResponse, timeline, pending, turnDone, cur, llmCalls,
                  llmPending, toolsRunning, backend, nextId >>
  /\ UNCHANGED outsideChat

Next ==
  \/ \E message \in RequestMessages, role \in RequestRoles, mode \in Modes,
        maxIterations \in 0..MaxIter : ChatRequest(message, role, mode, maxIterations)
  \/ PlanReady
  \/ LlmCall
  \/ LoopExit
  \/ LlmError
  \/ LlmMalformed
  \/ \E content \in LlmContents : LlmFinal(content)
  \/ \E calls \in ToolCallLists : LlmToolCalls(calls)
  \/ ToolStart
  \/ \E ok \in BOOLEAN : ToolFinish(ok)
  \/ RunReturnSingle
  \/ RunReturnMulti
  \/ ReviewDone

Spec == Init /\ [][Next]_vars

\* ------------------------------------------------------------------------
\* Vocabulary of the properties
\* ------------------------------------------------------------------------
\* agent.run() has returned its timeline
RunReturned == pc \in {"ran", "reviewing"} \/ (pc = "done" /\ http.status = 200)

Calls == timeline.toolCalls
CallIds == [i \in 1..Len(Calls) |-> Calls[i].id]
CallRequests == [i \in 1..Len(Calls) |-> Request(Calls[i].toolName, Calls[i].args)]

\* the catalog entries with a given name, read off toolDefinitions
Entries(name) == {i \in 1..Len(toolDefinitions) : << toolDefinitions[i].name >> = name}
RoleLacks(role, name) ==
  Entries(name) # {} /\ \A i \in Entries(name) : role \notin toolDefinitions[i].permissionRequired
Unsafe(name) == \E i \in Entries(name) : ~toolDefinitions[i].safeForProduction

\* the built-in tools whose dispatch forwards to a federated name
ArgSamples == {r.args : r \in LlmRequests}
ForwardingTools(fullName) ==
  {i \in 1..Len(toolDefinitions) :
     \E a \in ArgSamples : dispatch(<< toolDefinitions[i].name >>, a) = ViaManager(fullName)}

BackendOf(id) == {i \in 1..Len(backend) : backend[i].call = id}

\* the tool calls the LLM has emitted, in order, over all turns
RECURSIVE Flatten(_)
Flatten(msgs) ==
  IF msgs = << >> THEN << >> ELSE Head(msgs).tool_calls \o Flatten(Tail(msgs))
Emitted == Flatten(messages)

\* the replies of the LLM that are part of the conversation
Replies == SelectSeq(messages, LAMBDA m : m.role = "assistant")
ToolMessages == SelectSeq(messages, LAMBDA m : m.role = "tool")
ToolEventIds ==
  LET te == SelectSeq(events, LAMBDA e : e.event = "tool:executed")
  IN  [i \in 1..Len(te) |-> te[i].call]

\* ------------------------------------------------------------------------
\* C1: a session whose role may not use a built-in tool cannot have that
\* tool's backing operation invoked, whatever name the LLM emits: every
\* request that reaches a child server under a federated name that built-in
\* tools forward to is covered by the role check of one of those tools.
\* ------------------------------------------------------------------------
C1_BackingOperationNeedsRole ==
  \A i \in 1..Len(backend) :
     (backend[i].layer = "child" /\ ForwardingTools(backend[i].target) # {})
       => \E t \in ForwardingTools(backend[i].target) :
             session.role \in toolDefinitions[t].permissionRequired

\* ------------------------------------------------------------------------
\* C2: executeTool for a tool whose required roles do not include the
\* caller's role returns status error, the Permission denied error naming
\* the role and the tool, durationMs 0 and finishedAt set, and nothing below
\* the registry is invoked for that call.
\* ------------------------------------------------------------------------
C2_DeniedCall ==
  \A i \in 1..Len(Calls) :
     RoleLacks(session.role, Calls[i].toolName)
       => /\ Calls[i].status = "error"
          /\ Calls[i].error = [kind |-> "Permission denied", a |-> session.role,
                               b |-> Calls[i].toolName]
          /\ Calls[i].durationMs = 0
          /\ Calls[i].finishedAt # Unset
          /\ Calls[i].result = NoResult
          /\ BackendOf(Calls[i].id) = {}

C2_Witness ==
  /\ pc = "done"
  /\ session.role = "readonly"
  /\ \E i \in 1..Len(Calls) :
        /\ Calls[i].toolName = << "db_migrate" >>
        /\ Calls[i].error.kind = "Permission denied"

\* ------------------------------------------------------------------------
\* C3: with production-safe mode on, no tool whose safeForProduction flag is
\* false is executed, for any role: nothing below the registry is invoked
\* for such a call and the call is recorded as an error.
\* ------------------------------------------------------------------------
C3_SafeModeBlocksUnsafeTools ==
  productionSafeMode =>
    \A i \in 1..Len(Calls) :
       Unsafe(Calls[i].toolName)
         => Calls[i].status = "error" /\ BackendOf(Calls[i].id) = {}

OneToolCallEveryTurn ==
  /\ Len(Replies) = llmCalls
  /\ \A i \in 1..Len(Replies) : Len(Replies[i].tool_calls) = 1

C5_OneToolPerTurn ==
  (RunReturned /\ OneToolCallEveryTurn)
    => /\ llmCalls = req.maxIterations
       /\ Len(Calls) = req.maxIterations
       /\ timeline.finalResponse.kind = "Completed tool operations"
       /\ timeline.finalResponse.n = req.maxIterations

C5_Witness ==
  /\ pc = "done"
  /\ http.status = 200
  /\ OneToolCallEveryTurn
  /\ req.maxIterations = 2
  /\ Len(Calls) = 2

\* ------------------------------------------------------------------------
\* C6: tool calls run one at a time in emission order: at most one is
\* awaited, none while an LLM call is in flight, each starts no earlier than
\* the previous one finished, and the timeline is the emitted calls in
\* order (all of them once the turn is over).
\* ------------------------------------------------------------------------
C6_SequentialInOrder ==
  /\ Cardinality(toolsRunning) <= 1
  /\ toolsRunning # {} => llmPending = 0
  /\ llmPending > 0 => toolsRunning = {}
  /\ Len(Calls) <= Len(Emitted)
  /\ CallRequests = SubSeq(Emitted, 1, Len(Calls))
  /\ pc \notin {"tools", "toolwait"} => Len(Calls) = Len(Emitted)
  /\ \A i \in 1..(Len(Calls) - 1) :
        /\ Calls[i].finishedAt # Unset
        /\ Calls[i].finishedAt <= Calls[i + 1].startedAt
        /\ Calls[i].id < Calls[i + 1].id

C6_Witness ==
  /\ pc = "done"
  /\ Len(Replies) >= 2
  /\ Len(Replies[1].tool_calls) = 2
  /\ Replies[1].tool_calls[1] # Replies[1].tool_calls[2]
  /\ Len(Calls) = 2
  /\ Calls[1].durationMs > 0
  /\ Calls[2].durationMs > 0

C8_ToolErrorsDoNotEndRun ==
  /\ pc \notin {"tools", "toolwait"} => Len(Calls) = Len(Emitted)
  /\ Len(ToolMessages) = Len(Calls)
  /\ \A i \in 1..Len(Calls) :
        Calls[i].status = "error"
          => /\ ToolMessages[i].content.kind = "ERROR: "
             /\ ToolMessages[i].content.err = Calls[i].error
             /\ Calls[i].error.kind # "none"
  /\ RunReturned =>
       \/ timeline.finalResponse.kind = "AI Error: "
       \/ (Replies # << >> /\ Replies[Len(Replies)].tool_calls = << >>)
       \/ llmCalls = req.maxIterations
  /\ (pc = "loop" /\ iteration < req.maxIterations) => ENABLED LlmCall

C8_Witness ==
  /\ pc = "llm"
  /\ llmCalls = 2
  /\ Len(Calls) = 2
  /\ Len(Replies[1].tool_calls) = 2
  /\ Calls[1].status = "error"
  /\ Calls[1].error.kind = "Request timeout: tools/call"
  /\ Calls[2].status = "success"

\* ------------------------------------------------------------------------
\* C9: when an LLM call fails (the call is rejected, which the loop
\* catches, so the handler emits nothing in that step), the loop ends in
\* that step: finalResponse is "AI Error: <message>", the timeline
\* keeps the ToolCalls of the earlier iterations and is finalized, the
\* assistant message is appended to the session, and afterwards no LLM call
\* and no tool call is made.
\* ------------------------------------------------------------------------
C9_LlmFailureEndsLoop ==
  [][ /\ (llmPending' < llmPending /\ messages' = messages /\ events' = events)
         => /\ pc' = "ran"
            /\ timeline'.finalResponse = [kind |-> "AI Error: ", text |-> "",
                                          err |-> LlmFailure, n |-> 0]
            /\ timeline'.toolCalls = timeline.toolCalls
            /\ timeline'.finishedAt # Unset
            /\ llmCalls' = llmCalls
            /\ backend' = backend
            /\ session'.messages =
                 Append(session.messages,
                        [role |-> "assistant", content |-> timeline'.finalResponse,
                         toolCalls |-> timeline.toolCalls, timestamp |-> clock'])
      /\ RunReturned
         => /\ llmCalls' = llmCalls
            /\ backend' = backend
            /\ timeline' = timeline
            /\ session' = session
            /\ toolsRunning' = {} ]_vars

C9_Witness ==
  /\ pc = "done"
  /\ timeline.finalResponse.kind = "AI Error: "
  /\ llmCalls = 2
  /\ Len(Calls) >= 1
  /\ session.messages[Len(session.messages)].content.kind = "AI Error: "

\* ------------------------------------------------------------------------
\* C10: when the LLM replies without tool calls the run ends in that
\* iteration and finalResponse equals the content of the reply, for every
\* content, the empty string included.
\* ------------------------------------------------------------------------
C10_FinalResponseIsContent ==
  (RunReturned /\ Replies # << >> /\ Replies[Len(Replies)].tool_calls = << >>)
    => /\ timeline.finalResponse = Replies[Len(Replies)].content
       /\ Len(Replies) = llmCalls

\* ------------------------------------------------------------------------
\* C11: a tool call whose name is neither in the catalog nor a federated
\* mcp__ name is recorded as an error ToolCall whose error is "Unknown
\* tool", not a permission error, and no connector or server is invoked
\* for it.
\* ------------------------------------------------------------------------
C11_UnknownToolIsReported ==
  \A i \in 1..Len(Calls) :
     (Entries(Calls[i].toolName) = {} /\ ~StartsWithMcp(Calls[i].toolName))
       => /\ Calls[i].status = "error"
          /\ Calls[i].error.kind = "Unknown tool"
          /\ \A b \in BackendOf(Calls[i].id) : backend[b].layer \notin {"connector", "child"}

\* ------------------------------------------------------------------------
\* ToolRegistry.executeTool called once, on its own, for every role, tool
\* and SQL text of a bounded alphabet
\* ------------------------------------------------------------------------
MaxSqlLen == 4      \* longest SQL text given to db_query
SqlAlphabet == {"{", "}", "a", "Z", "_", "1"}
SqlTexts == UNION {[1..n -> SqlAlphabet] : n \in 0..MaxSqlLen}
ProbeRoles == {"operator", "readonly"}
ProbeNames == {Name("db_query"), Name("api_call")}

InitRegistry ==
  /\ ChatIdle
  /\ productionSafeMode = FALSE
  /\ clients \in [ServerIds -> {"none", "connected"}]
  /\ StoreIdle
  /\ ClientIdle
  /\ RestIdle
  /\ probe \in {[NoProbe EXCEPT !.phase = "new", !.role = r, !.name = n,
                                !.args = Args(q, NoAction)] :
                  r \in ProbeRoles, n \in ProbeNames, q \in SqlTexts}

\* executeTool up to the await of dispatch, or to its return when the role
\* check or dispatch itself fails
ExecuteTool ==
  /\ probe.phase = "new"
  /\ LET r == Request(probe.name, probe.args)
         plan == executeToolPlan(probe.role, probe.name, probe.args, clients)
         call == [NoCall EXCEPT !.id = 1, !.toolName = probe.name, !.args = probe.args,
                                !.status = "running", !.startedAt = 0]
     IN  probe' = IF plan.kind \in {"denied", "throw"}
                  THEN [probe EXCEPT !.phase = "done", !.reached = Layers(r, plan),
                                     !.call = [call EXCEPT !.status = "error",
                                                           !.error = plan.error,
                                                           !.finishedAt = 0,
                                                           !.durationMs = 0]]
                  ELSE [probe EXCEPT !.phase = "await", !.reached = Layers(r, plan),
                                     !.call = call]
  /\ UNCHANGED << chatVars, storeVars, clientVars, restVars >>

\* dispatch settles: the server or the connector has answered or failed
DispatchSettles(ok) ==
  /\ probe.phase = "await"
  /\ LET failure == IF probe.reached[Len(probe.reached)].layer = "child" THEN ChildFailure
                    ELSE ConnectorFailure
         done == [probe.call EXCEPT !.finishedAt = 1, !.durationMs = 1]
     IN  probe' = [probe EXCEPT !.phase = "done",
                     !.call = IF ok THEN [done EXCEPT !.status = "success", !.result = "ok"]
                              ELSE [done EXCEPT !.status = "error", !.error = failure]]
  /\ UNCHANGED << chatVars, storeVars, clientVars, restVars >>

NextRegistry ==
  \/ ExecuteTool
  \/ \E ok \in BOOLEAN : DispatchSettles(ok)

SpecRegistry == InitRegistry /\ [][NextRegistry]_vars

Digits == {"0", "1", "2", "3", "4", "5", "6", "7", "8", "9"}

\* the text holds {ident} with ident matching [A-Za-z_][A-Za-z0-9_]*
BracePlaceholder(sql) ==
  \E i \in 1..Len(sql) : \E j \in (i + 2)..Len(sql) :
     /\ sql[i] = "{"
     /\ sql[j] = "}"
     /\ sql[i + 1] \in LowerCase \cup UpperCase \cup {"_"}
     /\ \A k \in (i + 2)..(j - 1) : sql[k] \in LowerCase \cup UpperCase \cup Digits \cup {"_"}

\* ------------------------------------------------------------------------
\* C12: db_query with an SQL text that holds a brace placeholder {ident},
\* ident matching [A-Za-z_][A-Za-z0-9_]*, ends in a ToolCall with status
\* error whose error is the placeholder error, and neither the manager nor
\* the database server is called for it.
\* ------------------------------------------------------------------------
C12_PlaceholderRejected ==
  ( /\ probe.phase \in {"await", "done"}
    /\ probe.name = << "db_query" >>
    /\ canUseTool(probe.role, probe.name)
    /\ BracePlaceholder(probe.args.sql) )
    => /\ probe.phase = "done"
       /\ probe.call.status = "error"
       /\ probe.call.error.kind = "SQL contains placeholder"
       /\ \A k \in 1..Len(probe.reached) : probe.reached[k].layer \notin {"manager", "child"}

\* ------------------------------------------------------------------------
\* The session store (memory.ts) and the chat requests that run on it
\* ------------------------------------------------------------------------
MaxSessions == 1    \* most sessions created
MaxNow == 1         \* latest reading of the clock

VariableKeys == {"k"}
VariableValues == {"v"}
NoVariables == [k \in VariableKeys |-> "undefined"]

\* a reading of the clock taken after the reading t
Later(t) == {u \in {t, t + 1} : u <= MaxNow}

SessionMemory(id, userId, role, c, u) ==
  [sessionId |-> id, userId |-> userId, role |-> role, messages |-> << >>,
   variables |-> NoVariables, createdAt |-> c, updatedAt |-> u]

\* the store after a call, and the id of the session the call returns
Store(h, ids, id) == [heap |-> h, sessions |-> ids, id |-> id]

\* createSession: createdAt and updatedAt are two readings of the clock
createSessionIn(h, ids, userId, role, c, u) ==
  Store(Append(h, SessionMemory(Len(h) + 1, userId, role, c, u)),
        ids \cup {Len(h) + 1}, Len(h) + 1)

\* getOrCreateSession; 0 stands for a sessionId that is undefined
getOrCreateSessionAdoptRole(h, ids, sessionId, userId, role, c, u) ==
  IF sessionId # 0 /\ sessionId \in ids
  THEN Store([h EXCEPT ![sessionId].role = role], ids, sessionId)
  ELSE createSessionIn(h, ids, userId, role, c, u)
getOrCreateSession(h, ids, sessionId, userId, role, c, u) ==
  IF sessionId # 0 /\ sessionId \in ids THEN Store(h, ids, sessionId)
  ELSE createSessionIn(h, ids, userId, role, c, u)

\* an AgentMessage of the session, without its timestamp
AgentMessage(role, content, calls, t) ==
  [role |-> role, content |-> content, toolCalls |-> calls]

\* session.updatedAt = new Date()
TouchBackdated(sm, t) == [sm EXCEPT !.updatedAt = sm.createdAt]
Touch(sm, t) == [sm EXCEPT !.updatedAt = t]

\* run(): this.memory.messages.push({role: 'user', ...})
PushUser(h, id, prompt, t) ==
  [h EXCEPT ![id].messages = Append(@, AgentMessage("user", Text(prompt), << >>, t))]

\* run(): this.memory.messages.push({role: 'assistant', ...}); updatedAt
PushAssistantOverwrite(h, id, final, calls, t) ==
  [h EXCEPT ![id] = Touch([@ EXCEPT !.messages =
                             Append(SubSeq(@, 1, Len(@) - 1),
                                    AgentMessage("assistant", final, calls, t))], t)]
PushAssistant(h, id, final, calls, t) ==
  [h EXCEPT ![id] = Touch([@ EXCEPT !.messages =
                             Append(@, AgentMessage("assistant", final, calls, t))], t)]

\* the requests that are inside run() on a session
InRun(rs, id) == {b \in RunSlots : rs[b].phase = "loop" /\ rs[b].session = id}

\* new ReasoningAgent(session) and run() up to the loop; alone records
\* whether another run() was on the same session at any time of this one
EnterRun(rs, slot, base, h, id) ==
  [b \in RunSlots |->
     IF b = slot
     THEN [base EXCEPT !.phase = "loop", !.session = id, !.registryRole = h[id].role,
                       !.offered = availableTools(h[id].role, productionSafeMode),
                       !.startLen = Len(h[id].messages),
                       !.alone = (InRun(rs, id) \ {slot} = {})]
     ELSE IF b \in InRun(rs, id) THEN [rs[b] EXCEPT !.alone = FALSE]
     ELSE rs[b]]

ChatRoles == {"admin", "readonly", "root"}
\* the messages of the chat requests the clients send, in the order sent
Prompts == << "p", "q" >>
RunTools == {Name("db_migrate")}
RunEndings == {"reply", "llm error", "exhausted"}

InitSessions ==
  /\ ChatIdle
  /\ productionSafeMode = FALSE
  /\ clients = [sv \in ServerIds |-> "connected"]
  /\ probe = NoProbe
  /\ StoreIdle
  /\ ClientIdle
  /\ RestIdle

\* the ids a client can name: those it was given, and one it made up
KnownIds == (1..Len(heap)) \cup {MaxSessions + 1}

\* POST /api/chat up to its first await, on a store that may hold sessions
PostChat(slot, sessionId, role, mode, message) ==
  /\ sessionId \in {0} \cup KnownIds
  /\ runs[slot].phase = "free"
  /\ \A b \in RunSlots : runs[b].phase = "free" => slot <= b
  /\ chats < Len(Prompts)
  /\ message \in {"", Prompts[chats + 1]}
  /\ LET base == [NoRun EXCEPT !.given = sessionId, !.role = role, !.mode = mode,
                               !.prompt = message]
     IN  IF message = "" \/ ~isValidRole(role)
         THEN UNCHANGED << sessions, heap, runs, dateNow, chats >>
         ELSE \E u \in Later(dateNow) :
                LET st == getOrCreateSession(heap, sessions, sessionId, "anonymous", role,
                                             dateNow, u)
                IN  /\ Len(st.heap) <= MaxSessions
                    /\ st.heap = heap => u = dateNow
                    /\ chats' = chats + 1
                    /\ sessions' = st.sessions
                    /\ dateNow' = u
                    /\ IF mode = "multi"
                       THEN /\ heap' = st.heap
                            /\ runs' = [runs EXCEPT ![slot] =
                                          [base EXCEPT !.phase = "planning", !.session = st.id]]
                       ELSE /\ heap' = PushUser(st.heap, st.id, message, u)
                            /\ runs' = EnterRun(runs, slot, base, st.heap, st.id)
  /\ UNCHANGED << chatVars, probe, clientVars, restVars >>

\* OrchestratorAgent.run after createPlan: getOrCreateSession with the id
\* the handler passed, then reasoningAgent.run() up to the loop
OrchestratorRun(slot) ==
  /\ runs[slot].phase = "planning"
  /\ \E u \in Later(dateNow) :
       LET st == getOrCreateSession(heap, sessions, runs[slot].session, "orchestrator",
                                    runs[slot].role, dateNow, u)
       IN  /\ Len(st.heap) <= MaxSessions
           /\ st.heap = heap => u = dateNow
           /\ sessions' = st.sessions
           /\ dateNow' = u
           /\ heap' = PushUser(st.heap, st.id, runs[slot].prompt, u)
           /\ runs' = EnterRun(runs, slot, [runs[slot] EXCEPT !.given = runs[slot].session],
                               st.heap, st.id)
  /\ UNCHANGED << chats, chatVars, probe, clientVars, restVars >>

\* a tool call of the run, the only one a run makes here:
\* registry.executeTool with the registry's role
RunToolCall(slot, toolName) ==
  /\ runs[slot].phase = "loop"
  /\ runs[slot].toolCalls = << >>
  /\ LET plan == executeToolPlan(runs[slot].registryRole, toolName, NoArgs, clients)
         call == [NoCall EXCEPT !.id = slot, !.toolName = toolName]
         ended == IF plan.kind \in {"denied", "throw"}
                  THEN [call EXCEPT !.status = "error", !.error = plan.error]
                  ELSE [call EXCEPT !.status = "success", !.result = "ok"]
     IN  runs' = [runs EXCEPT ![slot].toolCalls = Append(@, ended)]
  /\ UNCHANGED << sessions, heap, dateNow, chats, chatVars, probe, clientVars, restVars >>

\* the loop of run() ends and run() returns; in single mode the handler
\* answers, in multi mode the orchestrator awaits the reviewer
RunEnds(slot, way) ==
  /\ runs[slot].phase = "loop"
  /\ \E t \in Later(dateNow) :
       LET fr == CASE way = "reply" -> Text("Hi")
                   [] way = "llm error" -> AIError(LlmFailure)
                   [] OTHER -> Text("")
           final == FinalText(fr, Len(runs[slot].toolCalls))
       IN  /\ dateNow' = t
           /\ heap' = PushAssistant(heap, runs[slot].session, final, runs[slot].toolCalls, t)
           /\ runs' = [runs EXCEPT ![slot] =
                         IF runs[slot].mode = "multi"
                         THEN [@ EXCEPT !.response = final, !.phase = "reviewing"]
                         ELSE NoRun]
  /\ UNCHANGED << sessions, chats, chatVars, probe, clientVars, restVars >>

\* reviewExecution has answered: the orchestrator returns, the handler answers
ReviewEnds(slot) ==
  /\ runs[slot].phase = "reviewing"
  /\ runs' = [runs EXCEPT ![slot] = NoRun]
  /\ UNCHANGED << sessions, heap, dateNow, chats, chatVars, probe, clientVars, restVars >>

\* DELETE /api/sessions/:sessionId, memory.ts clearSession; the clients
\* send one such request
DeleteSession(sessionId) ==
  /\ sessionId \in KnownIds
  /\ sessions = 1..Len(heap)
  /\ sessions' = sessions \ {sessionId}
  /\ UNCHANGED << heap, runs, dateNow, chats, chatVars, probe, clientVars, restVars >>

\* memory.ts setVariable
SetVariable(sessionId, key, value) ==
  /\ sessionId \in KnownIds
  /\ IF sessionId \in sessions
     THEN \E t \in Later(dateNow) :
            /\ heap' = [heap EXCEPT ![sessionId] = Touch([@ EXCEPT !.variables[key] = value], t)]
            /\ dateNow' = t
     ELSE UNCHANGED << heap, dateNow >>
  /\ UNCHANGED << sessions, runs, chats, chatVars, probe, clientVars, restVars >>

NextSessions ==
  \/ \E slot \in RunSlots, sessionId \in 0..(MaxSessions + 1), role \in ChatRoles,
        mode \in Modes, message \in {""} \cup {Prompts[i] : i \in 1..Len(Prompts)} :
          PostChat(slot, sessionId, role, mode, message)
  \/ \E slot \in RunSlots : OrchestratorRun(slot)
  \/ \E slot \in RunSlots, toolName \in RunTools : RunToolCall(slot, toolName)
  \/ \E slot \in RunSlots, way \in RunEndings : RunEnds(slot, way)
  \/ \E slot \in RunSlots : ReviewEnds(slot)
  \/ \E sessionId \in 1..(MaxSessions + 1) : DeleteSession(sessionId)
  \/ \E sessionId \in 1..(MaxSessions + 1), key \in VariableKeys, value \in VariableValues :
          SetVariable(sessionId, key, value)

SpecSessions == InitSessions /\ [][NextSessions]_vars

IsPrefix(a, b) == Len(a) <= Len(b) /\ SubSeq(b, 1, Len(a)) = a

\* the final responses a run with k tool calls can end with
FinalResponses(k) ==
  {Text("Hi"), [kind |-> "AI Error: ", text |-> "", err |-> LlmFailure, n |-> 0],
   [kind |-> "Completed tool operations", text |-> "", err |-> NoError, n |-> k]}

C14_UpdatedAtMonotone ==
  [][ /\ \A id \in 1..Len(heap) : heap[id].createdAt <= heap[id].updatedAt
      /\ \A id \in 1..Len(heap') : heap'[id].createdAt <= heap'[id].updatedAt
      /\ \A id \in 1..Len(heap) :
           /\ heap'[id].createdAt = heap[id].createdAt
           /\ heap'[id].updatedAt >= heap[id].updatedAt
    ]_vars

C14_Witness ==
  \E id \in 1..Len(heap) :
     LET m == heap[id].messages
     IN  /\ Len(m) = 4
         /\ m[1].role = "user" /\ m[2].role = "user"
         /\ m[3].role = "assistant" /\ m[4].role = "assistant"
         /\ heap[id].variables["k"] = "v"
         /\ heap[id].updatedAt > heap[id].createdAt

\* ------------------------------------------------------------------------
\* C15: the role of a session never changes after its creation, also when a
\* later chat request on its id carries another role, and the run of a chat
\* request, in single and in multi mode, checks tool permissions with the
\* role of its session: the registry's role and the tools offered are those
\* of the session's role, and a tool call is denied exactly when that role
\* lacks the tool.
\* ------------------------------------------------------------------------
C15_RoleFixedAtCreation ==
  [][ /\ \A id \in 1..Len(heap) : heap'[id].role = heap[id].role
      /\ \A slot \in RunSlots :
           runs'[slot].phase \in {"loop", "reviewing"}
             => LET sm == heap'[runs'[slot].session]
                    calls == runs'[slot].toolCalls
                IN  /\ runs'[slot].registryRole = sm.role
                    /\ runs'[slot].offered =
                         {i \in 1..Len(toolDefinitions) :
                            sm.role \in toolDefinitions[i].permissionRequired}
                    /\ \A i \in 1..Len(calls) :
                         (calls[i].status = "error" /\ calls[i].error.kind = "Permission denied")
                           <=> RoleLacks(sm.role, calls[i].toolName)
    ]_vars

C15_Witness ==
  \E slot \in RunSlots :
     /\ runs[slot].phase = "reviewing"
     /\ runs[slot].mode = "multi"
     /\ runs[slot].role = "admin"
     /\ runs[slot].given = runs[slot].session
     /\ heap[runs[slot].session].role = "readonly"
     /\ Len(heap[runs[slot].session].messages) = 4
     /\ Len(runs[slot].toolCalls) = 1
     /\ runs[slot].toolCalls[1].error.kind = "Permission denied"

\* ------------------------------------------------------------------------
\* C16: getOrCreateSession called with a session id returns a session that
\* has that id; a new session is created only when no id is supplied.
\* ------------------------------------------------------------------------
C16_SuppliedIdIsReturned ==
  \A slot \in RunSlots :
     (runs[slot].phase # "free" /\ runs[slot].given # 0)
       => runs[slot].session = runs[slot].given

\* ------------------------------------------------------------------------
\* MCPServerClient (client.ts): one client, the child process it spawns and
\* the manager that connects, uses and disconnects it
\* ------------------------------------------------------------------------
MaxRequests == 4      \* most requests issued on the client
RequestTimeout == 30  \* the delay of the timer of a request, in seconds

\* the instants at which the clock is read
TimePoints == {0, 1, RequestTimeout, RequestTimeout + 1}

\* the lines written to the child; id 0 stands for a line without id
RequestLine(id, method) ==
  [id |-> id, method |-> method,
   protocolVersion |-> IF method = "initialize" THEN "2024-11-05" ELSE ""]
NotifyLine(method) == [id |-> 0, method |-> method, protocolVersion |-> ""]

\* the promise request() returns
Promise(id, method, t) ==
  [id |-> id, method |-> method, state |-> "pending", error |-> NoError, issuedAt |-> t]

NotConnected == Err("Not connected", "", << >>)
Disconnected == Err("Disconnected", "", << >>)
RequestTimedOut(method) == Err("Request timeout: ", method, << >>)
ChildError == Err("tool failed", "", << >>)     \* error.message of an error response

\* the timer of a request runs RequestTimeout after the request was issued
Deadline(t) == t + RequestTimeout

\* resolve or reject the promise of the request with the given id
Settle(ps, id, state, error) ==
  [i \in 1..Len(ps) |->
     IF ps[i].id = id /\ ps[i].state = "pending"
     THEN [ps[i] EXCEPT !.state = state, !.error = error] ELSE ps[i]]

\* request(method) with p = this.proc at the call; written are the lines the
\* caller writes with it, its request line included, and nothing is written
\* to a missing child
IssueReusingId(p, method, written) ==
  IF p = "null"
  THEN /\ promises' = Append(promises, [Promise(0, method, time) EXCEPT
                                          !.state = "rejected", !.error = NotConnected])
       /\ stdin' = stdin
       /\ UNCHANGED << pendingTable, idCounter, timers >>
  ELSE /\ idCounter' = IF idCounter > 1 THEN idCounter ELSE idCounter + 1
       /\ pendingTable' = pendingTable \cup {idCounter}
       /\ stdin' = stdin \o written
       /\ promises' = Append(promises, Promise(idCounter, method, time))
       /\ timers' = timers \cup {idCounter}
Issue(p, method, written) ==
  IF p = "null"
  THEN /\ promises' = Append(promises, [Promise(0, method, time) EXCEPT
                                          !.state = "rejected", !.error = NotConnected])
       /\ stdin' = stdin
       /\ UNCHANGED << pendingTable, idCounter, timers >>
  ELSE /\ idCounter' = idCounter + 1
       /\ pendingTable' = pendingTable \cup {idCounter}
       /\ stdin' = stdin \o written
       /\ promises' = Append(promises, Promise(idCounter, method, time))
       /\ timers' = timers \cup {idCounter}

\* the promise connect() awaits
Awaited(method) ==
  {i \in 1..Len(promises) : promises[i].method = method}

\* connect(): what is written once the initialize response has arrived
ListThenInitialized(id) ==
  << RequestLine(id, "tools/list"), NotifyLine("notifications/initialized") >>
InitializedThenList(id) ==
  << NotifyLine("notifications/initialized"), RequestLine(id, "tools/list") >>

\* the line handler: the pending entry a message with this id belongs to
MatchingOldest(tbl, id) ==
  IF tbl = {} THEN {} ELSE {CHOOSE i \in tbl : \A j \in tbl : i <= j}
Matching(tbl, id) == IF id \in tbl THEN {id} ELSE {}

\* the timer callback: the pending table it leaves
OnTimeoutKeepEntry(tbl, id) == tbl
OnTimeout(tbl, id) == tbl \ {id}

\* disconnect(): for (const [, p] of this.pending) p.reject(new Error('Disconnected'))
RejectNone(ps, tbl) == ps
RejectAll(ps, tbl) ==
  [i \in 1..Len(ps) |->
     IF ps[i].id \in tbl /\ ps[i].state = "pending"
     THEN [ps[i] EXCEPT !.state = "rejected", !.error = Disconnected] ELSE ps[i]]

InitClient ==
  /\ ChatIdle
  /\ productionSafeMode = FALSE
  /\ clients = [sv \in ServerIds |-> "none"]
  /\ probe = NoProbe
  /\ StoreIdle
  /\ ClientIdle
  /\ RestIdle

outsideClient == << chatVars, probe, storeVars, restVars >>

\* manager.connectServer: new MCPServerClient, connect(): spawn the child and
\* send initialize
ConnectStart ==
  /\ connectPc = "idle"
  /\ proc' = "child"
  /\ child' = "running"
  /\ Issue("child", "initialize", << RequestLine(idCounter, "initialize") >>)
  /\ connectPc' = "initialize"
  /\ UNCHANGED << lastLine, connected, tools, registered, time, outsideClient >>

\* connect() after await request('initialize'): notify, connected = true,
\* request('tools/list')
ConnectInitialized ==
  /\ connectPc = "initialize"
  /\ \E i \in Awaited("initialize") : promises[i].state = "fulfilled"
  /\ connected' = TRUE
  /\ Issue(proc, "tools/list", InitializedThenList(idCounter))
  /\ connectPc' = "list"
  /\ UNCHANGED << proc, child, lastLine, tools, registered, time, outsideClient >>

\* connect() after await request('tools/list'): the tools are kept and the
\* manager puts the client into its map
ConnectListed ==
  /\ connectPc = "list"
  /\ \E i \in Awaited("tools/list") : promises[i].state = "fulfilled"
  /\ tools' = {McpName(Name("mysql"), t) : t \in ServerTools(Name("mysql"))}
  /\ connectPc' = "done"
  /\ registered' = TRUE
  /\ UNCHANGED << proc, child, lastLine, connected, pendingTable, idCounter, stdin,
                  promises, timers, time, outsideClient >>

\* connect() throws when an awaited request is rejected: the manager records
\* the error and does not keep the client
ConnectFails ==
  /\ \/ connectPc = "initialize"
        /\ \E i \in Awaited("initialize") : promises[i].state = "rejected"
     \/ connectPc = "list"
        /\ \E i \in Awaited("tools/list") : promises[i].state = "rejected"
  /\ connectPc' = "failed"
  /\ UNCHANGED << proc, child, lastLine, connected, tools, pendingTable, idCounter,
                  stdin, promises, timers, registered, time, outsideClient >>

\* callTool: through manager.executeTool on a connected client of the map,
\* or by a caller that still holds the client after disconnect()
CallTool ==
  /\ Len(promises) < MaxRequests
  /\ \/ registered /\ connected
     \/ connectPc = "done" /\ proc = "null"
  /\ Issue(proc, "tools/call", << RequestLine(idCounter, "tools/call") >>)
  /\ UNCHANGED << proc, child, lastLine, connected, tools, connectPc, registered,
                  time, outsideClient >>

\* rl.on('line'): a response of the child to a request it was sent, a result
\* or an error; the child may answer a request late or more than once
Line(id, kind) ==
  /\ child # "none"
  /\ id < idCounter
  /\ lastLine' = [id |-> id, kind |-> kind]
  /\ LET m == Matching(pendingTable, id)
     IN /\ pendingTable' = pendingTable \ m
        /\ promises' =
             IF m = {} THEN promises
             ELSE LET e == CHOOSE x \in m : TRUE
                  IN IF kind = "error"
                     THEN Settle(promises, e, "rejected", ChildError)
                     ELSE Settle(promises, e, "fulfilled", NoError)
  /\ UNCHANGED << proc, child, connected, tools, idCounter, stdin, timers, connectPc,
                  registered, time, outsideClient >>

\* the issue time of the request with this id
IssuedAt(id) ==
  LET i == CHOOSE j \in 1..Len(promises) : promises[j].id = id IN promises[i].issuedAt
MethodOf(id) ==
  LET i == CHOOSE j \in 1..Len(promises) : promises[j].id = id IN promises[i].method

\* the setTimeout callback of request()
Timeout(id) ==
  /\ id \in timers
  /\ time >= Deadline(IssuedAt(id))
  /\ timers' = timers \ {id}
  /\ IF id \in pendingTable
     THEN /\ pendingTable' = OnTimeout(pendingTable, id)
          /\ promises' = Settle(promises, id, "rejected", RequestTimedOut(MethodOf(id)))
     ELSE UNCHANGED << pendingTable, promises >>
  /\ UNCHANGED << proc, child, lastLine, connected, tools, idCounter, stdin, connectPc,
                  registered, time, outsideClient >>

\* time passes; a timer runs when it is due
Tick(t) ==
  /\ t > time
  /\ \A id \in timers : t <= Deadline(IssuedAt(id))
  /\ time' = t
  /\ UNCHANGED << proc, child, lastLine, connected, tools, pendingTable, idCounter,
                  stdin, promises, timers, connectPc, registered, outsideClient >>

\* disconnect(), called by the manager on a client of its map, which it then
\* deletes; kill() has been called on the child whatever its state was
Disconnect ==
  /\ registered
  /\ connected' = FALSE
  /\ child' = "killed"
  /\ proc' = "null"
  /\ tools' = {}
  /\ promises' = RejectAll(promises, pendingTable)
  /\ pendingTable' = {}
  /\ registered' = FALSE
  /\ UNCHANGED << lastLine, idCounter, stdin, timers, connectPc, time, outsideClient >>

\* proc.on('exit')
ChildExit ==
  /\ child = "running"
  /\ child' = "exited"
  /\ connected' = FALSE
  /\ UNCHANGED << proc, lastLine, tools, pendingTable, idCounter, stdin, promises,
                  timers, connectPc, registered, time, outsideClient >>

NextClient ==
  \/ ConnectStart
  \/ ConnectInitialized
  \/ ConnectListed
  \/ ConnectFails
  \/ CallTool
  \/ \E id \in 1..MaxRequests, kind \in {"result", "error"} : Line(id, kind)
  \/ \E id \in 1..MaxRequests : Timeout(id)
  \/ \E t \in TimePoints : Tick(t)
  \/ Disconnect
  \/ ChildExit

SpecClient == InitClient /\ [][NextClient]_vars

\* the promise of the request of this method has been fulfilled
Answered(method) ==
  \E i \in 1..Len(promises) : promises[i].method = method /\ promises[i].state = "fulfilled"

\* C17: the first three lines the child receives are the initialize request
\* with protocolVersion 2024-11-05, the notifications/initialized
\* notification and the tools/list request, once each and in this order;
\* the notification is written only after the initialize response has
\* arrived, and every later line is a tools/call written after the
\* tools/list response has arrived.
C17_HandshakeOrder ==
  /\ Len(stdin) >= 1 =>
       stdin[1] = [id |-> 1, method |-> "initialize", protocolVersion |-> "2024-11-05"]
  /\ Len(stdin) >= 2 =>
       /\ stdin[2] = [id |-> 0, method |-> "notifications/initialized",
                      protocolVersion |-> ""]
       /\ Answered("initialize")
  /\ Len(stdin) >= 3 =>
       stdin[3] = [id |-> 2, method |-> "tools/list", protocolVersion |-> ""]
  /\ \A i \in 4..Len(stdin) :
       /\ stdin[i].method = "tools/call"
       /\ Answered("tools/list")

C17_Witness ==
  /\ Len(stdin) >= 4
  /\ stdin[4].method = "tools/call"
  /\ connectPc = "done"

\* C18: a request is fulfilled only by a result line that carries its id
\* and fails with the message of the child only by an error line that
\* carries its id, and in both cases its entry leaves the pending table; a
\* line whose id has no pending entry changes neither a request nor the
\* table.
C18_ResponsesCorrelated ==
  [][ /\ \A i \in 1..Len(promises) :
           /\ (promises[i].state = "pending" /\ promises'[i].state = "fulfilled") =>
                /\ lastLine' = [id |-> promises[i].id, kind |-> "result"]
                /\ promises[i].id \in pendingTable
                /\ promises[i].id \notin pendingTable'
           /\ (promises[i].state = "pending" /\ promises'[i].state = "rejected"
                 /\ promises'[i].error = [kind |-> "tool failed", a |-> "", b |-> << >>]) =>
                /\ lastLine' = [id |-> promises[i].id, kind |-> "error"]
                /\ promises[i].id \in pendingTable
                /\ promises[i].id \notin pendingTable'
      /\ (lastLine' # lastLine /\ lastLine'.id \notin pendingTable) =>
           UNCHANGED << promises, pendingTable, timers, stdin, idCounter, connected, tools >>
    ]_vars

C18_Witness ==
  \E i, j \in 1..Len(promises) :
    /\ i < j
    /\ promises[i].method = "tools/call" /\ promises[j].method = "tools/call"
    /\ promises[i].state = "pending" /\ promises[i].id \in pendingTable
    /\ promises[j].state = "fulfilled"
    /\ lastLine = [id |-> promises[j].id, kind |-> "result"]

\* the promise failed with "Request timeout: <method>"
TimedOut(pr) == pr.state = "rejected" /\ pr.error.kind = "Request timeout: "

\* C19: a request still in the pending table is never older than 30 s; a
\* request that failed with "Request timeout: <method>" names its own
\* method, failed no earlier than 30 s after it was issued and has no entry
\* in the pending table; the step that fails it removes exactly its entry,
\* and nothing that happens later, a response with its id included, changes
\* it or brings the entry back.
C19_TimeoutAfterDeadline ==
  /\ [](\A i \in 1..Len(promises) :
          /\ promises[i].id \in pendingTable => time <= promises[i].issuedAt + 30
          /\ TimedOut(promises[i]) =>
               /\ promises[i].error.a = promises[i].method
               /\ time >= promises[i].issuedAt + 30
               /\ promises[i].id \notin pendingTable)
  /\ [][\A i \in 1..Len(promises) :
          /\ (promises[i].state = "pending" /\ TimedOut(promises'[i])) =>
               pendingTable' = pendingTable \ {promises[i].id}
          /\ TimedOut(promises[i]) =>
               /\ promises'[i] = promises[i]
               /\ promises[i].id \notin pendingTable']_vars

C19_Witness ==
  \E i \in 1..Len(promises) :
    /\ promises[i].method = "tools/call"
    /\ TimedOut(promises[i])
    /\ pendingTable = {}
    /\ lastLine.id = promises[i].id

\* C20: the step in which disconnect() runs leaves the client not
\* connected, without tools, with its child killed and its pending table
\* empty, and fails every request that was pending with "Disconnected";
\* the client stays like this afterwards, and a request issued on it fails
\* with "Not connected" and writes nothing to the child.
C20_DisconnectLeavesNothing ==
  /\ [][(proc # "null" /\ proc' = "null") =>
          /\ ~connected' /\ tools' = {} /\ child' = "killed" /\ pendingTable' = {}
          /\ \A i \in 1..Len(promises) :
               promises[i].state = "pending" =>
                 /\ promises'[i].state = "rejected"
                 /\ promises'[i].error = [kind |-> "Disconnected", a |-> "", b |-> << >>]]_vars
  /\ []((proc = "null" /\ connectPc = "done") =>
          /\ ~connected /\ tools = {} /\ child = "killed" /\ pendingTable = {}
          /\ \A i \in 1..Len(promises) : promises[i].state # "pending")
  /\ [][(proc = "null" /\ proc' = "null" /\ Len(promises') > Len(promises)) =>
          /\ promises'[Len(promises')].state = "rejected"
          /\ promises'[Len(promises')].error =
               [kind |-> "Not connected", a |-> "", b |-> << >>]
          /\ stdin' = stdin
          /\ pendingTable' = {}]_vars

C20_Witness ==
  \E i, j \in 1..Len(promises) :
    /\ i < j
    /\ promises[i].error.kind = "Disconnected"
    /\ promises[j].error.kind = "Not connected"
    /\ proc = "null" /\ child = "killed" /\ ~connected /\ tools = {} /\ pendingTable = {}

\* ------------------------------------------------------------------------
\* Full names of federated tools, character by character: how connect()
\* builds mcp__<serverId>__<toolName> and how manager.executeTool takes it
\* apart
\* ------------------------------------------------------------------------
MaxNameLen == 3     \* longest server id and longest tool name

NameAlphabet == {"a", "_"}
NameTexts == UNION {[1..n -> NameAlphabet] : n \in 1..MaxNameLen}

\* the first index of "__" in the text, 0 when there is none
IndexOfDouble(w) ==
  LET at == {i \in 1..(Len(w) - 1) : w[i] = "_" /\ w[i + 1] = "_"}
  IN  IF at = {} THEN 0 ELSE CHOOSE i \in at : \A j \in at : i <= j

\* server ids of configs: any text without "__"
ServerIdTexts == {w \in NameTexts : IndexOfDouble(w) = 0}

McpPrefix == << "m", "c", "p", "_", "_" >>

\* fullName: `mcp__${this.config.id}__${t.name}`
fullNameOf(serverId, toolName) == McpPrefix \o serverId \o << "_", "_" >> \o toolName

\* executeTool: the server id and the tool name it reads from a full name
splitFullName(fullName) ==
  LET withoutPrefix == SubSeq(fullName, Len(McpPrefix) + 1, Len(fullName))
      firstDouble == IndexOfDouble(withoutPrefix)
  IN  IF firstDouble = 0
      THEN [kind |-> "invalid", serverId |-> << >>, toolName |-> << >>]
      ELSE [kind |-> "split",
            serverId |-> SubSeq(withoutPrefix, 1, firstDouble - 1),
            toolName |-> SubSeq(withoutPrefix, firstDouble + 2, Len(withoutPrefix))]

\* executeTool on a manager whose map holds connected clients for the ids in held
routeFullName(fullName, held) ==
  LET parts == splitFullName(fullName)
  IN  IF parts.kind = "invalid" THEN [kind |-> "Invalid MCP tool name", serverId |-> << >>,
                                     toolName |-> << >>]
      ELSE IF parts.serverId \notin held
      THEN [kind |-> "is not connected", serverId |-> parts.serverId, toolName |-> << >>]
      ELSE [kind |-> "callTool", serverId |-> parts.serverId, toolName |-> parts.toolName]

NotRouted == [kind |-> "none", serverId |-> << >>, toolName |-> << >>]

\* one server config and one tool of its child; the manager holds the
\* connected client of this server
InitRouting ==
  /\ ChatIdle
  /\ productionSafeMode = FALSE
  /\ clients = [sv \in ServerIds |-> "none"]
  /\ StoreIdle
  /\ ClientIdle
  /\ RestIdle
  /\ probe \in {[phase |-> "configured", serverId |-> sv, toolName |-> t, fullName |-> << >>,
                 discovered |-> FALSE, routed |-> NotRouted] :
                  sv \in ServerIdTexts, t \in NameTexts}

outsideProbe == << chatVars, storeVars, clientVars, restVars >>

\* connect(): the tool is listed by the child and gets its full name
DiscoverTool ==
  /\ probe.phase = "configured"
  /\ probe' = [probe EXCEPT !.phase = "named", !.discovered = TRUE,
                            !.fullName = fullNameOf(probe.serverId, probe.toolName)]
  /\ UNCHANGED outsideProbe

\* the LLM asks for a name that starts with mcp__ and was not discovered
OtherName(text) ==
  /\ probe.phase = "configured"
  /\ probe' = [probe EXCEPT !.phase = "named", !.fullName = McpPrefix \o text]
  /\ UNCHANGED outsideProbe

\* manager.executeTool(fullName)
ManagerExecute ==
  /\ probe.phase = "named"
  /\ probe' = [probe EXCEPT !.phase = "done",
                            !.routed = routeFullName(probe.fullName, {probe.serverId})]
  /\ UNCHANGED outsideProbe

NextRouting ==
  \/ DiscoverTool
  \/ \E text \in NameTexts : OtherName(text)
  \/ ManagerExecute

SpecRouting == InitRouting /\ [][NextRouting]_vars

\* C21: a full name built at discovery from a server id without "__" and a
\* tool name is routed to the client of that server id with that tool
\* name, and a name without "__" after the prefix is rejected as invalid.
C21_RoutesToItsServer ==
  probe.phase = "done" =>
    /\ probe.discovered =>
         probe.routed = [kind |-> "callTool", serverId |-> probe.serverId,
                         toolName |-> probe.toolName]
    /\ (~probe.discovered
          /\ \A i \in 6..(Len(probe.fullName) - 1) :
               ~(probe.fullName[i] = "_" /\ probe.fullName[i + 1] = "_")) =>
         probe.routed.kind = "Invalid MCP tool name"

\* ------------------------------------------------------------------------
\* The events of a chat request in multi mode
\* ------------------------------------------------------------------------
EventNames == [i \in 1..Len(events) |-> events[i].event]

\* the events of the orchestrator and of the handler after it, for k tool calls
OrchestratorEvents(k) ==
  << "agent:planning", "agent:plan_ready", "agent:executing" >>
    \o [i \in 1..k |-> "tool:executed"]
    \o << "agent:reviewing", "agent:review_done", "agent:done" >>

\* C22 as stated: in multi mode the events of a completed chat request are
\* exactly agent:planning, agent:plan_ready, agent:executing, one
\* tool:executed per tool call, agent:reviewing, agent:review_done,
\* agent:done.
C22_EventsAsStated ==
  (pc = "done" /\ http.status = 200 /\ req.mode = "multi")
    => EventNames = OrchestratorEvents(Len(Calls))

\* C22, amended: in multi mode the events of a chat request that has not
\* failed are, at every moment, a prefix of agent:start, agent:planning, agent:plan_ready,
\* agent:executing, one tool:executed per tool call, agent:reviewing,
\* agent:review_done, agent:done, and all of it once the request has
\* completed; so no tool:executed comes before agent:executing or after
\* agent:reviewing.
C22_EventsAfterStart ==
  (pc # "idle" /\ req.mode = "multi" /\ http.status # 500) =>
    /\ IsPrefix(EventNames, << "agent:start" >> \o OrchestratorEvents(Len(Calls)))
    /\ (pc = "done" /\ http.status = 200) =>
         EventNames = << "agent:start" >> \o OrchestratorEvents(Len(Calls))

C22_Witness ==
  /\ pc = "done"
  /\ http.status = 200
  /\ req.mode = "multi"
  /\ Len(Calls) = 2
  /\ Len(events) = 9
  /\ events[5].event = "tool:executed" /\ events[6].event = "tool:executed"

\* ------------------------------------------------------------------------
\* C29: a chat request without message or with a role that is none of
\* admin, operator, dev, readonly is answered with status 400 and
\* success false, and leaves everything else as it was: no session, no
\* event, no LLM call, no tool call, no metric.
\* ------------------------------------------------------------------------
C29_InvalidRequestChangesNothing ==
  (pc # "idle" /\ (req.message = "" \/ req.role \notin {"admin", "operator", "dev", "readonly"}))
    => /\ pc = "done"
       /\ http = [status |-> 400, success |-> FALSE]
       /\ session = NoSession
       /\ events = << >>
       /\ messages = << >>
       /\ llmCalls = 0 /\ llmPending = 0
       /\ timeline = NoTimeline
       /\ backend = << >>
       /\ toolsRunning = {}
       /\ metrics = [totalRequests |-> 0, totalToolCalls |-> 0]

C29_Witness ==
  /\ pc = "done"
  /\ http.status = 400
  /\ req.message = "hello"
  /\ req.role = "root"
  /\ req.mode = "multi"

\* ------------------------------------------------------------------------
\* OrchestratorAgent.run with createPlan (planner.ts) and reviewExecution
\* (reviewer.ts): what they make of the LLM's answers
\* ------------------------------------------------------------------------
MaxOutcomes == 2    \* most successful and most failed tool calls of a timeline

Absent == "undefined"          \* a member the JSON text does not have

\* what ollamaChat gives the planner: a failure, a text that is not JSON,
\* the JSON text null, or a JSON object whose goal, complexity and steps are
\* present or not; steps is an array of n steps or something else
PlanSteps == {[kind |-> "undefined", n |-> 0], [kind |-> "other", n |-> 0]}
               \cup {[kind |-> "array", n |-> n] : n \in 0..2}
\* the tool names the text carries: its estimatedTools, and the toolHint of
\* its i-th step is the i-th of them
PlanNames == {<< >>, << "db_query", "no_such_tool" >>}
PlanOutputs ==
  {[kind |-> k, goal |-> Absent, complexity |-> Absent, names |-> << >>,
    steps |-> [kind |-> "undefined", n |-> 0]] :
     k \in {"llm error", "not json", "null"}}
  \cup {[kind |-> "object", goal |-> g, complexity |-> c, names |-> ns, steps |-> st] :
          g \in {Absent, "the goal"}, c \in {Absent, "complex", "trivial"},
          ns \in PlanNames, st \in PlanSteps}

\* getAllToolNames(): the names of the tool definitions
getAllToolNames == {toolDefinitions[i].name : i \in 1..Len(toolDefinitions)}

PlanStep(i, description, toolHint) ==
  [stepNumber |-> i, description |-> description, toolHint |-> toolHint,
   status |-> "pending"]

fallbackPlan(userPrompt) ==
  [goal |-> userPrompt, complexity |-> "simple", estimatedTools |-> << >>,
   steps |-> << PlanStep(1, "Execute the user request directly", Absent) >>]

\* availableToolNames.includes(s.toolHint) ? s.toolHint : undefined
toolHintOf(hint, availableToolNames) ==
  IF hint \in availableToolNames THEN hint ELSE Absent

\* createPlan: the fallback when ollamaChat, JSON.parse, a member access on
\* null or steps.map throws; else the members of the object with defaults
createPlan(userPrompt, out) ==
  IF out.kind \in {"llm error", "not json", "null"} \/ out.steps.kind = "other"
  THEN fallbackPlan(userPrompt)
  ELSE [goal |-> IF out.goal = Absent THEN userPrompt ELSE out.goal,
        complexity |-> IF out.complexity = Absent THEN "simple" ELSE out.complexity,
        estimatedTools |-> SelectSeq(out.names, LAMBDA t : t \in getAllToolNames),
        steps |-> [i \in 1..out.steps.n |->
                     PlanStep(i, "", toolHintOf(IF i <= Len(out.names) THEN out.names[i]
                                                ELSE Absent, getAllToolNames))]]

\* scores are counted in tenths, so that 75 is the score 7.5; NotANumber
\* is what Number() makes of a missing or non-numeric score
Number(tenths) == [isNaN |-> FALSE, tenths |-> tenths]
NotANumber == [isNaN |-> TRUE, tenths |-> 0]
ModelScores == {Number(n) : n \in {-30, 0, 70, 75, 100, 150}}
ReviewOutputs ==
  {[kind |-> k, passed |-> FALSE, score |-> NotANumber] : k \in {"llm error", "not json", "null"}}
  \cup {[kind |-> "object", passed |-> pa, score |-> sc] :
          pa \in BOOLEAN, sc \in ModelScores \cup {NotANumber}}

Min(a, b) == IF a <= b THEN a ELSE b
Max(a, b) == IF a >= b THEN a ELSE b

fallbackReview(successCount, errorCount) ==
  LET passed == errorCount = 0 \/ successCount > errorCount
  IN  [passed |-> passed,
       score |-> IF passed THEN (IF errorCount = 0 THEN 80 ELSE 60) ELSE 40,
       path |-> "fallback"]

\* reviewExecution: Math.min(10, Math.max(0, Number(parsed.score) || 5))
reviewExecution(out, successCount, errorCount) ==
  IF out.kind \in {"llm error", "not json", "null"}
  THEN fallbackReview(successCount, errorCount)
  ELSE [passed |-> out.passed,
        score |-> Min(100, Max(0, IF out.score.isNaN \/ out.score.tenths = 0
                                   THEN 50 ELSE out.score.tenths)),
        path |-> "parsed"]

\* agentLogs: the three entries and their timestamps, in milliseconds
AgentLog(agentType, timestamp) == [agentType |-> agentType, timestamp |-> timestamp]
agentLogsOf(startTime, now) ==
  << AgentLog("planner", startTime),
     AgentLog("executor", startTime + 100),
     AgentLog("reviewer", now) >>

OrchPrompts == {"p"}
StartTimes == {0, 1000}
Elapsed == {40, 100, 2500}     \* milliseconds a run takes from start to end

InitOrchestrator ==
  /\ ChatIdle
  /\ productionSafeMode = FALSE
  /\ clients = [sv \in ServerIds |-> "none"]
  /\ probe = NoProbe
  /\ StoreIdle
  /\ ClientIdle
  /\ RestIdle

outsideOrch == << chatVars, probe, storeVars, clientVars, metricsVars, managerVars, otherVars >>

\* run(): startTime = Date.now(), then createPlan is awaited
OrchestratorStarts(userPrompt, startTime) ==
  /\ orch.phase = "idle"
  /\ orch' = [orch EXCEPT !.phase = "planning", !.prompt = userPrompt, !.startTime = startTime]
  /\ UNCHANGED outsideOrch

\* createPlan returns, the reasoning agent is started
PlanAnswered(out) ==
  /\ orch.phase = "planning"
  /\ orch' = [orch EXCEPT !.phase = "executing", !.planOutput = out,
                          !.plan = createPlan(orch.prompt, out)]
  /\ UNCHANGED outsideOrch

\* reasoningAgent.run returns a timeline, reviewExecution is awaited
ExecutionReturns(successCount, errorCount) ==
  /\ orch.phase = "executing"
  /\ orch' = [orch EXCEPT !.phase = "reviewing", !.successes = successCount,
                          !.errors = errorCount]
  /\ UNCHANGED outsideOrch

\* reviewExecution returns, run() builds the MultiAgentTimeline
ReviewAnswered(out, elapsed) ==
  /\ orch.phase = "reviewing"
  /\ orch' = [orch EXCEPT !.phase = "done", !.reviewOutput = out,
                          !.review = reviewExecution(out, orch.successes, orch.errors),
                          !.agentLogs = agentLogsOf(orch.startTime, orch.startTime + elapsed)]
  /\ UNCHANGED outsideOrch

NextOrchestrator ==
  \/ \E userPrompt \in OrchPrompts, startTime \in StartTimes :
       OrchestratorStarts(userPrompt, startTime)
  \/ \E out \in PlanOutputs : PlanAnswered(out)
  \/ \E successCount \in 0..MaxOutcomes, errorCount \in 0..MaxOutcomes :
       ExecutionReturns(successCount, errorCount)
  \/ \E out \in ReviewOutputs, elapsed \in Elapsed : ReviewAnswered(out, elapsed)

SpecOrchestrator == InitOrchestrator /\ [][NextOrchestrator]_vars

\* C23: the agent logs of a result are three entries, planner, executor,
\* reviewer in this order, with timestamps that do not decrease.
C23_ThreeLogsInTimeOrder ==
  orch.phase = "done" =>
    /\ Len(orch.agentLogs) = 3
    /\ orch.agentLogs[1].agentType = "planner"
    /\ orch.agentLogs[2].agentType = "executor"
    /\ orch.agentLogs[3].agentType = "reviewer"
    /\ orch.agentLogs[1].timestamp <= orch.agentLogs[2].timestamp
    /\ orch.agentLogs[2].timestamp <= orch.agentLogs[3].timestamp

\* the LLM output is not the declared plan: no JSON, or JSON without goal,
\* complexity or an array of steps
NotThePlanSchema(out) ==
  \/ out.kind # "object"
  \/ out.goal = "undefined"
  \/ out.complexity = "undefined"
  \/ out.steps.kind # "array"

\* C24: for an LLM output that is not the declared plan the planner
\* returns the plan with one step, the user prompt as goal and complexity
\* simple.
C24_FallbackPlanForBadOutput ==
  (orch.phase \in {"executing", "reviewing", "done"} /\ NotThePlanSchema(orch.planOutput)) =>
    /\ Len(orch.plan.steps) = 1
    /\ orch.plan.goal = orch.prompt
    /\ orch.plan.complexity = "simple"

\* C25: a review of the fallback path has passed = (errors = 0 or
\* successes > errors) and score 8 without errors, else 6 with at least one
\* success, else 4 (scores in tenths).
C25_FallbackReviewValues ==
  (orch.phase = "done" /\ orch.review.path = "fallback") =>
    /\ orch.review.passed = (orch.errors = 0 \/ orch.successes > orch.errors)
    /\ orch.review.score = IF orch.errors = 0 THEN 80
                           ELSE IF orch.successes >= 1 THEN 60 ELSE 40

\* C26: the score of a review is a whole number from 0 to 10, and on the
\* parsed path it is the score of the model, clamped to 0..10 (scores in
\* tenths).
C26_ScoreClamped ==
  orch.phase = "done" =>
    /\ orch.review.score \in 0..100
    /\ orch.review.score % 10 = 0
    /\ (orch.review.path = "parsed" /\ ~orch.reviewOutput.score.isNaN) =>
         orch.review.score =
           IF orch.reviewOutput.score.tenths > 100 THEN 100
           ELSE IF orch.reviewOutput.score.tenths < 0 THEN 0
           ELSE orch.reviewOutput.score.tenths

\* ------------------------------------------------------------------------
\* MetricsStore (metrics/store.ts): recordRequest and reset
\* ------------------------------------------------------------------------
MaxRecords == 52    \* most recordRequest calls
MAX_RECENT == 50

\* the SessionMetric of the n-th recorded request; requests alternate
\* between two sessions and between no tool call and one
SessionMetric(n, tl) ==
  [request |-> n, sessionId |-> n % 2, requestCount |-> 1,
   toolCallCount |-> Len(tl.toolCalls)]
TimelineOf(n) == [toolCalls |-> IF n % 2 = 1 THEN << "db_query" >> ELSE << >>]

\* this.recentSessions.unshift(session) and the cut to MAX_RECENT
pushCapped(list, entry) ==
  LET l == list \o << entry >>
  IN  IF Len(l) > MAX_RECENT THEN SubSeq(l, 1, MAX_RECENT) ELSE l
unshiftCapped(list, entry) ==
  LET l == << entry >> \o list
  IN  IF Len(l) > MAX_RECENT THEN SubSeq(l, 1, MAX_RECENT) ELSE l

InitMetrics ==
  /\ ChatIdle
  /\ productionSafeMode = FALSE
  /\ clients = [sv \in ServerIds |-> "none"]
  /\ probe = NoProbe
  /\ StoreIdle
  /\ ClientIdle
  /\ RestIdle

outsideMetrics == << chatVars, probe, storeVars, clientVars, orch, managerVars, otherVars >>

\* metricsStore.recordRequest(timeline, sessionId, role)
RecordRequest ==
  /\ recorded < MaxRecords
  /\ recorded' = recorded + 1
  /\ LET tl == TimelineOf(recorded + 1)
     IN  metricsStore' =
           [counters |-> recordRequest(metricsStore.counters, tl),
            recentSessions |-> unshiftCapped(metricsStore.recentSessions,
                                             SessionMetric(recorded + 1, tl))]
  /\ UNCHANGED outsideMetrics

\* metricsStore.reset()
Reset ==
  /\ metricsStore' = EmptyStore
  /\ UNCHANGED << recorded, outsideMetrics >>

NextMetrics ==
  \/ RecordRequest
  \/ Reset

SpecMetrics == InitMetrics /\ [][NextMetrics]_vars

\* C28: the recent-sessions list never has more than 50 entries, its
\* entries are the most recently recorded requests since the last reset,
\* the most recent first, so that the oldest are the ones dropped; a reset
\* leaves every counter 0 and the list empty.
C28_RecentSessionsCapped ==
  /\ [](LET list == metricsStore.recentSessions
            total == metricsStore.counters.totalRequests
        IN  /\ Len(list) <= 50
            /\ Len(list) = IF total <= 50 THEN total ELSE 50
            /\ \A i \in 1..Len(list) : list[i].request = recorded - i + 1)
  /\ [][(recorded' = recorded /\ metricsStore' # metricsStore) =>
          /\ metricsStore'.counters = [totalRequests |-> 0, totalToolCalls |-> 0]
          /\ metricsStore'.recentSessions = << >>]_vars

C28_Witness ==
  /\ recorded = 52
  /\ metricsStore.counters.totalRequests = 51
  /\ Len(metricsStore.recentSessions) = 50
  /\ metricsStore.recentSessions[1].request = 52
  /\ metricsStore.recentSessions[50].request = 3

\* ------------------------------------------------------------------------
\* MCPServerManager (manager.ts): connectAll at startup, then addServer,
\* updateServer, removeServer and reconnectServer; every connectServer call
\* awaits the handshake with the child it spawned
\* ------------------------------------------------------------------------
Config(id, enabled) == [id |-> id, enabled |-> enabled]

\* how a handshake ends: the child answers, answers initialize with an
\* error, or does not answer before the request times out
Outcomes == {"ok", "error", "timeout"}
ErrorMessage(o) == IF o = "error" THEN "handshake failed" ELSE "Request timeout: initialize"

\* this.configs.findIndex((c) => c.id === id), 0 for -1
IndexOfConfig(cfgs, id) ==
  LET at == {i \in 1..Len(cfgs) : cfgs[i].id = id}
  IN  IF at = {} THEN 0 ELSE CHOOSE i \in at : \A j \in at : i <= j

\* connectAll: the next config after position from that it connects, 0 for none
NextConfigOfAny(cfgs, from) ==
  IF from < Len(cfgs) THEN from + 1 ELSE 0
NextEnabled(cfgs, from) ==
  LET at == {i \in (from + 1)..Len(cfgs) : cfgs[i].enabled}
  IN  IF at = {} THEN 0 ELSE CHOOSE i \in at : \A j \in at : i <= j

\* connectServer before its try: the client the map holds for the id is
\* disconnected and deleted
Reaped(ids, id) == ids \ {id}

\* connectServer after await client.connect(): the map and the errors
ClientsAfter(ids, id, o) == IF o = "ok" THEN ids \cup {id} ELSE ids
ErrorsAfter(errs, id, o) == [errs EXCEPT ![id] = IF o = "ok" THEN "" ELSE ErrorMessage(o)]

InitManager ==
  /\ ChatIdle
  /\ productionSafeMode = FALSE
  /\ clients = [sv \in ServerIds |-> "none"]
  /\ probe = NoProbe
  /\ StoreIdle
  /\ ClientIdle
  /\ orch = NoOrch
  /\ MetricsIdle
  /\ OtherIdle
  /\ \E flags \in [1..LoadedConfigs -> BOOLEAN] :
       ManagerLoaded([i \in 1..LoadedConfigs |-> Config(i, flags[i])])

outsideManager == << chatVars, probe, storeVars, clientVars, orch, metricsVars, otherVars >>

\* connectAll() up to its first await, or to its end when no config is enabled
ConnectAllStarts ==
  /\ allState = "idle"
  /\ LET i == NextEnabled(configs, 0)
     IN  IF i = 0
         THEN /\ allState' = "done"
              /\ UNCHANGED << allPc, attempted, clientIds >>
         ELSE /\ allState' = "awaiting"
              /\ allPc' = i
              /\ attempted' = attempted \cup {configs[i].id}
              /\ clientIds' = Reaped(clientIds, configs[i].id)
  /\ UNCHANGED << configs, errors, inflight, outcome, managerCalls, nextUuid, outsideManager >>

\* the handshake connectAll awaits ends; connectServer returns and the loop
\* goes on to the next enabled config
AllHandshakeEnds(o) ==
  /\ allState = "awaiting"
  /\ LET id == configs[allPc].id
         j == NextEnabled(configs, allPc)
     IN  /\ outcome' = [outcome EXCEPT ![id] = o]
         /\ errors' = ErrorsAfter(errors, id, o)
         /\ IF j = 0
            THEN /\ allState' = "done"
                 /\ clientIds' = ClientsAfter(clientIds, id, o)
                 /\ UNCHANGED << allPc, attempted >>
            ELSE /\ allState' = "awaiting"
                 /\ allPc' = j
                 /\ attempted' = attempted \cup {configs[j].id}
                 /\ clientIds' = Reaped(ClientsAfter(clientIds, id, o), configs[j].id)
  /\ UNCHANGED << configs, inflight, managerCalls, nextUuid, outsideManager >>

\* the calls of the API arrive once startup is over
CallArrives ==
  /\ allState = "done"
  /\ managerCalls < MaxManagerCalls
  /\ managerCalls' = managerCalls + 1

\* addServer(input) up to the await of connectServer, or to its return
AddServer(enabled) ==
  /\ CallArrives
  /\ configs' = Append(configs, Config(nextUuid, enabled))
  /\ nextUuid' = nextUuid + 1
  /\ IF enabled
     THEN /\ clientIds' = Reaped(clientIds, nextUuid)
          /\ inflight' = [inflight EXCEPT ![nextUuid] = @ + 1]
     ELSE UNCHANGED << clientIds, inflight >>
  /\ UNCHANGED << errors, allPc, allState, attempted, outcome, outsideManager >>

\* removeServer(id)
RemoveServer(id) ==
  /\ CallArrives
  /\ clientIds' = clientIds \ {id}
  /\ errors' = [errors EXCEPT ![id] = ""]
  /\ configs' = SelectSeq(configs, LAMBDA c : c.id # id)
  /\ UNCHANGED << inflight, allPc, allState, attempted, outcome, nextUuid, outsideManager >>

\* updateServer(id, {enabled}) up to the await of connectServer, or to its
\* return; it throws when the id has no config
UpdateServer(id, enabled) ==
  /\ CallArrives
  /\ LET idx == IndexOfConfig(configs, id)
     IN  IF idx = 0
         THEN UNCHANGED << configs, clientIds, inflight >>
         ELSE /\ configs' = [configs EXCEPT ![idx].enabled = enabled]
              /\ clientIds' = Reaped(clientIds, id)
              /\ inflight' = IF enabled THEN [inflight EXCEPT ![id] = @ + 1] ELSE inflight
  /\ UNCHANGED << errors, allPc, allState, attempted, outcome, nextUuid, outsideManager >>

\* reconnectServer(id) up to the await of connectServer; it throws when the
\* id has no config
ReconnectServer(id) ==
  /\ CallArrives
  /\ IF IndexOfConfig(configs, id) = 0
     THEN UNCHANGED << clientIds, inflight >>
     ELSE /\ clientIds' = Reaped(clientIds, id)
          /\ inflight' = [inflight EXCEPT ![id] = @ + 1]
  /\ UNCHANGED << configs, errors, allPc, allState, attempted, outcome, nextUuid,
                  outsideManager >>

\* a handshake started by add, update or reconnect ends and its
\* connectServer returns
HandshakeEnds(id, o) ==
  /\ inflight[id] > 0
  /\ inflight' = [inflight EXCEPT ![id] = @ - 1]
  /\ outcome' = [outcome EXCEPT ![id] = o]
  /\ clientIds' = ClientsAfter(clientIds, id, o)
  /\ errors' = ErrorsAfter(errors, id, o)
  /\ UNCHANGED << configs, allPc, allState, attempted, managerCalls, nextUuid,
                  outsideManager >>

NextManager ==
  \/ ConnectAllStarts
  \/ \E o \in Outcomes : AllHandshakeEnds(o)
  \/ \E enabled \in BOOLEAN : AddServer(enabled)
  \/ \E id \in ConfigIds : RemoveServer(id)
  \/ \E id \in ConfigIds, enabled \in BOOLEAN : UpdateServer(id, enabled)
  \/ \E id \in ConfigIds : ReconnectServer(id)
  \/ \E id \in ConfigIds, o \in Outcomes : HandshakeEnds(id, o)

SpecManager == InitManager /\ [][NextManager]_vars

\* C27: when connectAll has returned and no other call has been made, every
\* enabled config has been attempted and no disabled one; a server whose
\* handshake failed has its own failure message in the error map and no
\* client, a server whose child answered has a client and no error, and a
\* disabled server has neither.
C27_ConnectAllIsolatesFailures ==
  (allState = "done" /\ managerCalls = 0) =>
    \A i \in 1..Len(configs) :
      LET id == configs[i].id
      IN  IF configs[i].enabled
          THEN /\ id \in attempted
               /\ outcome[id] \in {"ok", "error", "timeout"}
               /\ outcome[id] = "ok" => (id \in clientIds /\ errors[id] = "")
               /\ outcome[id] = "error" =>
                    (id \notin clientIds /\ errors[id] = "handshake failed")
               /\ outcome[id] = "timeout" =>
                    (id \notin clientIds /\ errors[id] = "Request timeout: initialize")
          ELSE /\ id \notin attempted
               /\ id \notin clientIds
               /\ errors[id] = ""
               /\ outcome[id] = "none"

C27_Witness ==
  /\ allState = "done"
  /\ managerCalls = 0
  /\ Len(configs) = 2
  /\ configs[1].enabled /\ configs[2].enabled
  /\ outcome[1] = "timeout" /\ errors[1] = "Request timeout: initialize"
  /\ outcome[2] = "ok" /\ clientIds = {2} /\ errors[2] = ""

\* C30: when every call has run to completion, every client in the
\* manager's map belongs to a config that exists and is enabled.
C30_ClientsBelongToEnabledConfigs ==
  (allState = "done" /\ \A id \in ConfigIds : inflight[id] = 0) =>
    \A id \in clientIds :
      \E i \in 1..Len(configs) : configs[i].id = id /\ configs[i].enabled

\* ------------------------------------------------------------------------
\* C31: when two chat runs on the same session overlap in time, the messages
\* of the session still consist of adjacent user/assistant pairs: the
\* assistant message a run appends stands immediately after the user message
\* of the same run.
\* ------------------------------------------------------------------------
C31_PairsStayAdjacent ==
  [][ \A slot \in RunSlots :
        (runs[slot].phase = "loop" /\ runs'[slot].phase # "loop")
          => LET m == heap'[runs[slot].session].messages
             IN  /\ Len(m) >= 2
                 /\ m[Len(m)].role = "assistant"
                 /\ m[Len(m) - 1] = [role |-> "user", content |-> Text(runs[slot].prompt),
                                     toolCalls |-> << >>]
    ]_vars

\* ------------------------------------------------------------------------
\* MCPServerManager.getAllTools / toOllamaTools / executeTool (manager.ts)
\* over one server: the client of the map, its handshake and its child. The
\* child reads a request only while it runs, and what it wrote before it
\* exited can still be read after the exit event.
\* ------------------------------------------------------------------------
MaxFedRequests == 4    \* most requests written to the child
MaxExecutes == 3       \* most executeTool calls made

FedServer == Name("mysql")
FedTools == {McpName(FedServer, t) : t \in ServerTools(FedServer)}

\* client.isConnected() of the client the map holds, false when it holds none
isConnected(f) == f.inMap /\ f.connected

\* getAllTools(): the tools of the clients of the map that are connected
getAllTools(f) == IF isConnected(f) THEN f.tools ELSE {}

\* toOllamaTools(): one function per tool, named by its fullName
toOllamaTools(f) == {[type |-> "function", name |-> t] : t \in getAllTools(f)}

\* proc.on('exit', () => { this.connected = false; })
onExitIgnored(f) == f
onExit(f) == [f EXCEPT !.connected = FALSE]

\* request(): a fresh id, a pending entry and one line written to the child
requestOn(f) ==
  [f EXCEPT !.idCounter = @ + 1,
            !.pending = @ \cup {f.idCounter},
            !.writes = @ + 1,
            !.received = IF f.child = "running" THEN @ \cup {f.idCounter} ELSE @]

\* disconnect() of the client, then clients.delete(id)
disconnectClient(f) ==
  [f EXCEPT !.connected = FALSE, !.child = IF @ = "none" THEN @ ELSE "killed",
            !.proc = "null", !.tools = {}, !.pending = {}, !.received = {},
            !.out = {}, !.inMap = FALSE]

InitFederation ==
  /\ ChatIdle
  /\ productionSafeMode = FALSE
  /\ clients = [sv \in ServerIds |-> "none"]
  /\ probe = NoProbe
  /\ StoreIdle
  /\ ClientIdle
  /\ RestIdle

outsideFed == << chatVars, probe, storeVars, clientVars, orch, metricsVars, managerVars, conv, stream, repo, kids >>

\* connectServer: new MCPServerClient, connect() up to await request('initialize')
FedConnectServer ==
  /\ fed.pc = "idle"
  /\ fed' = [requestOn([fed EXCEPT !.child = "running", !.proc = "child"])
               EXCEPT !.pc = "initialize"]
  /\ UNCHANGED outsideFed

\* the child answers a request it has read
FedChildAnswers(id) ==
  /\ fed.child = "running"
  /\ id \in fed.received
  /\ fed' = [fed EXCEPT !.received = @ \ {id}, !.out = @ \cup {id}]
  /\ UNCHANGED outsideFed

\* rl.on('line') with the code that awaited the request: connect() goes on
\* after initialize, and after tools/list the manager puts the client into
\* its map; the answer to a tools/call settles that call
FedLine(id) ==
  /\ id \in fed.out
  /\ LET read == [fed EXCEPT !.out = @ \ {id}, !.pending = @ \ {id}]
     IN  fed' = CASE id \notin fed.pending -> read
                  [] id \in fed.pending /\ id = 1 /\ fed.pc = "initialize" ->
                       [requestOn([read EXCEPT !.connected = TRUE, !.writes = @ + 1])
                          EXCEPT !.pc = "list"]
                  [] id \in fed.pending /\ id = 2 /\ fed.pc = "list" ->
                       [read EXCEPT !.tools = FedTools, !.inMap = TRUE, !.pc = "done"]
                  [] OTHER -> read
  /\ UNCHANGED outsideFed

\* the timer of a request: a pending handshake request makes connect()
\* throw, and the manager records the error and keeps no client
FedTimeout(id) ==
  /\ id \in fed.pending
  /\ fed' = [fed EXCEPT !.pending = @ \ {id},
                        !.pc = IF (id = 1 /\ @ = "initialize") \/ (id = 2 /\ @ = "list")
                               THEN "failed" ELSE @]
  /\ UNCHANGED outsideFed

\* the child process ends by itself
FedChildExit ==
  /\ fed.child = "running"
  /\ fed' = onExit([fed EXCEPT !.child = "exited", !.received = {}])
  /\ UNCHANGED outsideFed

\* removeServer, or updateServer with enabled = false: disconnect the client
\* of the map and delete it
FedRemoveServer ==
  /\ fed.inMap
  /\ fed' = disconnectClient(fed)
  /\ UNCHANGED outsideFed

\* executeTool(fullName, args) on a tool name of this server
FedExecuteTool(fullName) ==
  /\ fed.executes < MaxExecutes
  /\ fed.idCounter <= MaxFedRequests
  /\ fed' = IF ~isConnected(fed)
            THEN [fed EXCEPT !.executes = @ + 1, !.lastExecute = "is not connected"]
            ELSE [requestOn(fed) EXCEPT !.executes = @ + 1, !.lastExecute = "callTool"]
  /\ UNCHANGED outsideFed

NextFederation ==
  \/ FedConnectServer
  \/ \E id \in 1..MaxFedRequests : FedChildAnswers(id)
  \/ \E id \in 1..MaxFedRequests : FedLine(id)
  \/ \E id \in 1..MaxFedRequests : FedTimeout(id)
  \/ FedChildExit
  \/ FedRemoveServer
  \/ \E fullName \in FedTools : FedExecuteTool(fullName)

SpecFederation == InitFederation /\ [][NextFederation]_vars

MaxHistory == 9        \* most messages of the session before the run

\* the session's messages before the run: earlier user/assistant pairs
HistoryOf(n) ==
  [i \in 1..n |-> [role |-> IF i % 2 = 1 THEN "user" ELSE "assistant",
                   content |-> [Text("h") EXCEPT !.n = i], toolCalls |-> << >>]]

ConvTools == {Name("db_query"), Name("api_call")}
ConvCallLists == UNION {[1..n -> {Request(t, NoArgs) : t \in ConvTools}] : n \in 1..2}
ConvIterations == {1, 2}

\* run() up to the loop: the list built from the session's history
buildMessages(history, userPrompt) ==
  << Msg("system", SystemPrompt, << >>) >>
    \o [i \in 1..Len(recentHistory(history)) |->
          Msg(recentHistory(history)[i].role, recentHistory(history)[i].content, << >>)]
    \o << Msg("user", Text(userPrompt), << >>) >>

\* the top of the loop: iteration++ and ollamaChat({ messages, tools }), or
\* the end of the loop when the guard fails
TopOfLoop(c) ==
  IF LoopGuard(c.iteration, c.maxIterations)
  THEN [c EXCEPT !.iteration = @ + 1, !.llmCalls = @ + 1, !.sent = c.messages,
                 !.pc = "llm"]
  ELSE [c EXCEPT !.pc = "done"]

InitConversation ==
  /\ ChatIdle
  /\ productionSafeMode = FALSE
  /\ clients = [sv \in ServerIds |-> "none"]
  /\ probe = NoProbe
  /\ StoreIdle
  /\ ClientIdle
  /\ orch = NoOrch
  /\ MetricsIdle
  /\ ManagerIdle
  /\ fed = NoFed
  /\ stream = NoStream
  /\ repo = NoRepo
  /\ kids = NoKids
  /\ \E n \in 0..MaxHistory : conv = [NoConv EXCEPT !.history = HistoryOf(n)]

outsideConv == << chatVars, probe, storeVars, clientVars, orch, metricsVars, managerVars, fed, stream, repo, kids >>

\* run(userPrompt, { maxIterations }) up to the first await of ollamaChat
ConvRunStarts(userPrompt, maxIterations) ==
  /\ conv.pc = "idle"
  /\ conv' = TopOfLoop([conv EXCEPT !.prompt = userPrompt,
                                    !.maxIterations = maxIterations,
                                    !.messages = buildMessages(conv.history, userPrompt)])
  /\ UNCHANGED outsideConv

\* ollamaChat answers without tool calls: the final message is pushed
ConvLlmFinal(content) ==
  /\ conv.pc = "llm"
  /\ conv' = [conv EXCEPT !.messages = Append(@, Msg("assistant", Text(content), << >>)),
                          !.pc = "done"]
  /\ UNCHANGED outsideConv

\* ollamaChat rejects: the loop is left
ConvLlmError ==
  /\ conv.pc = "llm"
  /\ conv' = [conv EXCEPT !.pc = "done"]
  /\ UNCHANGED outsideConv

\* ollamaChat answers with tool calls: the assistant message is pushed and
\* the first call is awaited
ConvLlmToolCalls(calls) ==
  /\ conv.pc = "llm"
  /\ conv' = [conv EXCEPT !.messages = Append(@, Msg("assistant", Text(""), calls)),
                          !.calls = calls, !.done = << >>, !.pc = "tools"]
  /\ UNCHANGED outsideConv

\* the awaited tool call returns: its tool message is pushed, and after the
\* last call of the turn the loop goes on
ConvToolReturns(ok) ==
  /\ conv.pc = "tools"
  /\ LET r == conv.calls[ForOf(Len(conv.done), Len(conv.calls))]
         call == IF ok
                 THEN [NoCall EXCEPT !.toolName = r.name, !.status = "success",
                                     !.result = r.name[1]]
                 ELSE [NoCall EXCEPT !.toolName = r.name, !.status = "error",
                                     !.error = ConnectorFailure]
         pushed == [conv EXCEPT !.messages = Append(@, Msg("tool", ToolMessageContent(call), << >>)),
                                !.done = Append(@, call)]
     IN  conv' = IF AfterCall(call, Len(pushed.done), Len(conv.calls)) = "loop"
                 THEN TopOfLoop(pushed) ELSE pushed
  /\ UNCHANGED outsideConv

NextConversation ==
  \/ \E userPrompt \in {"hello"}, maxIterations \in ConvIterations :
       ConvRunStarts(userPrompt, maxIterations)
  \/ \E content \in LlmContents : ConvLlmFinal(content)
  \/ ConvLlmError
  \/ \E calls \in ConvCallLists : ConvLlmToolCalls(calls)
  \/ \E ok \in BOOLEAN : ConvToolReturns(ok)

SpecConversation == InitConversation /\ [][NextConversation]_vars

\* the last n elements of a sequence, all of them when it has fewer
LastOf(q, n) ==
  LET k == IF Len(q) < n THEN Len(q) ELSE n
  IN  [i \in 1..k |-> q[Len(q) - k + i]]

\* the tool message of a call of the given request
ToolMessagesFor(r) ==
  {Msg("tool", JsonContent(r.name[1]), << >>),
   Msg("tool", ErrorContent(ConnectorFailure), << >>)}

\* ------------------------------------------------------------------------
\* C33: the list sent to the LLM in the first iteration is one system
\* message, the last 8 messages of the session's history as it was before
\* the run (all of them if fewer), then the new user message; the list of a
\* later iteration is the list of the iteration before with the assistant
\* message appended, followed by one tool message per requested tool call,
\* in the order of the requests.
\* ------------------------------------------------------------------------
C33_MessagesSentToLlm ==
  /\ [](conv.llmCalls = 1 =>
          LET h == LastOf(conv.history, 8)
          IN  conv.sent = << Msg("system", SystemPrompt, << >>) >>
                            \o [i \in 1..Len(h) |-> Msg(h[i].role, h[i].content, << >>)]
                            \o << Msg("user", Text(conv.prompt), << >>) >>)
  /\ [][ (conv'.llmCalls = conv.llmCalls + 1 /\ conv.llmCalls >= 1)
           => LET old == conv.sent
                  new == conv'.sent
                  n == Len(conv.calls)
              IN  /\ Len(new) = Len(old) + 1 + n
                  /\ SubSeq(new, 1, Len(old)) = old
                  /\ new[Len(old) + 1] = Msg("assistant", Text(""), conv.calls)
                  /\ \A i \in 1..n : new[Len(old) + 1 + i] \in ToolMessagesFor(conv.calls[i])
       ]_vars

\* a run on a history of 9 messages whose second list carries two tool
\* messages of different tools
C33_Witness ==
  /\ Len(conv.history) = 9
  /\ conv.llmCalls = 2
  /\ Len(conv.sent) = 13
  /\ conv.sent[2].content.n = 2
  /\ conv.sent[12].content = ErrorContent(ConnectorFailure)
  /\ conv.sent[13].content = JsonContent("api_call")

\* ------------------------------------------------------------------------
\* C34: every ToolCall of a timeline is finished: finishedAt and durationMs
\* are set and its status is success or error; a call with status error has
\* its error set and no result, a call with status success has no error;
\* for calls of built-in tools and of tools of an MCP server alike.
\* ------------------------------------------------------------------------
C34_TimelineCallsAreFinished ==
  \A i \in 1..Len(timeline.toolCalls) :
     LET call == timeline.toolCalls[i]
     IN  /\ call.finishedAt # Unset
         /\ call.durationMs # Unset
         /\ call.durationMs >= 0
         /\ call.finishedAt >= call.startedAt
         /\ call.status \in {"success", "error"}
         /\ call.status = "error" => (call.error # NoError /\ call.result = NoResult)
         /\ call.status = "success" => call.error = NoError

\* a timeline with a built-in call that succeeded and a call of an MCP
\* tool that failed
C34_Witness ==
  /\ Len(timeline.toolCalls) = 2
  /\ ~StartsWithMcp(timeline.toolCalls[1].toolName)
  /\ timeline.toolCalls[1].status = "success"
  /\ StartsWithMcp(timeline.toolCalls[2].toolName)
  /\ timeline.toolCalls[2].status = "error"
  /\ timeline.toolCalls[2].error = ChildFailure

\* ------------------------------------------------------------------------
\* C35: every plan the planner returns, on the parsed path and on the
\* fallback path, has at least one step, a complexity among simple, medium
\* and complex, every step pending, and estimatedTools and toolHints that
\* are known tool names only.
\* ------------------------------------------------------------------------
C35_PlanWellFormed ==
  orch.phase \in {"executing", "reviewing", "done"} =>
    /\ Len(orch.plan.steps) >= 1
    /\ orch.plan.complexity \in {"simple", "medium", "complex"}
    /\ \A i \in 1..Len(orch.plan.steps) :
         /\ orch.plan.steps[i].status = "pending"
         /\ orch.plan.steps[i].toolHint \in getAllToolNames \cup {Absent}
    /\ \A i \in 1..Len(orch.plan.estimatedTools) :
         orch.plan.estimatedTools[i] \in getAllToolNames

\* ------------------------------------------------------------------------
\* ollamaChatStream (ollama.ts): the response is a text of lines, one JSON
\* object per line, that arrives in chunks of any size. A text is a sequence
\* of characters; the line of a content fragment x is { x }, and LF ends a
\* line.
\* ------------------------------------------------------------------------
MaxFragments == 2      \* most content fragments the server sends

LF == "LF"
Fragments == {"a", "b", "c"}
JsonLine(x) == << "{", x, "}" >>

\* the text the server sends for the fragments; the last line is ended by a
\* newline or not
RECURSIVE StreamText(_, _)
StreamText(frs, terminated) ==
  IF frs = << >> THEN << >>
  ELSE JsonLine(Head(frs))
         \o (IF Len(frs) > 1 \/ terminated THEN << LF >> ELSE << >>)
         \o StreamText(Tail(frs), terminated)

\* buffer.split('\n'): the pieces between the newlines, in order
RECURSIVE split(_)
split(b) ==
  IF \A i \in 1..Len(b) : b[i] # LF THEN << b >>
  ELSE LET k == CHOOSE i \in 1..Len(b) : b[i] = LF /\ \A j \in 1..(i - 1) : b[j] # LF
       IN  << SubSeq(b, 1, k - 1) >> \o split(SubSeq(b, k + 1, Len(b)))

\* JSON.parse(line) and parsed?.message?.content ?? '': the fragment of a
\* complete line, the empty string for an empty or malformed line
tokenOf(line) ==
  IF Len(line) = 3 /\ line[1] = "{" /\ line[3] = "}" THEN line[2] ELSE ""

\* the tokens of the lines, in order, without the empty ones
RECURSIVE tokensOf(_)
tokensOf(lines) ==
  IF lines = << >> THEN << >>
  ELSE (IF tokenOf(Head(lines)) = "" THEN << >> ELSE << tokenOf(Head(lines)) >>)
         \o tokensOf(Tail(lines))

\* the 'data' handler
onData(st, chunk) ==
  LET pieces == split(st.buffer \o chunk)
      lines == SubSeq(pieces, 1, Len(pieces) - 1)
  IN  [st EXCEPT !.buffer = pieces[Len(pieces)],
                 !.fullContent = @ \o tokensOf(lines),
                 !.tokens = @ \o tokensOf(lines),
                 !.pos = @ + Len(chunk)]

\* the 'end' handler: resolve(fullContent)
onEnd(st) == [st EXCEPT !.state = "ended", !.result = st.fullContent]

InitStream ==
  /\ ChatIdle
  /\ productionSafeMode = FALSE
  /\ clients = [sv \in ServerIds |-> "none"]
  /\ probe = NoProbe
  /\ StoreIdle
  /\ ClientIdle
  /\ orch = NoOrch
  /\ MetricsIdle
  /\ ManagerIdle
  /\ fed = NoFed
  /\ conv = NoConv
  /\ repo = NoRepo
  /\ kids = NoKids
  /\ \E n \in 0..MaxFragments, terminated \in BOOLEAN :
       \E frs \in [1..n -> Fragments] :
         stream = [NoStream EXCEPT !.state = "open", !.fragments = frs,
                                   !.text = StreamText(frs, terminated)]

outsideStream == << chatVars, probe, storeVars, clientVars, orch, metricsVars, managerVars,
                    fed, conv, repo, kids >>

\* response.data.on('data'): the next n characters of the text arrive
StreamData(n) ==
  /\ stream.state = "open"
  /\ stream.pos + n <= Len(stream.text)
  /\ stream' = onData(stream, SubSeq(stream.text, stream.pos + 1, stream.pos + n))
  /\ UNCHANGED outsideStream

\* response.data.on('end'), when the whole text has arrived
StreamEnd ==
  /\ stream.state = "open"
  /\ stream.pos = Len(stream.text)
  /\ stream' = onEnd(stream)
  /\ UNCHANGED outsideStream

NextStream ==
  \/ \E n \in 1..(4 * MaxFragments) : StreamData(n)
  \/ StreamEnd

SpecStream == InitStream /\ [][NextStream]_vars

\* ------------------------------------------------------------------------
\* C36: the call returns the concatenation, in order, of all the content
\* fragments the server sent and has passed each of them to onToken exactly
\* once, however the text was split into chunks, a line split across two
\* chunks and a last line without a newline included.
\* ------------------------------------------------------------------------
C36_StreamReturnsAllFragments ==
  stream.state = "ended" =>
    /\ stream.result = stream.fragments
    /\ stream.tokens = stream.fragments

\* ------------------------------------------------------------------------
\* ToolRegistry.dispatch, git tools (planner.ts): resolveRepoPath and the
\* path the git connector is called with. A path names a file system entry
\* of one kind: a repository (a directory with a .git directory), a work
\* tree (a directory with a .git file), a plain directory, a file, or
\* nothing.
\* ------------------------------------------------------------------------
EntryKinds == {"repository", "worktree", "directory", "file", "missing"}
Path(kind, relative) == [kind |-> "string", at |-> kind, relative |-> relative]

\* args['repoPath']: missing, the empty string, not a string, or a path
RepoPathArgs ==
  {[kind |-> k, at |-> "missing", relative |-> FALSE] : k \in {"undefined", "empty", "number"}}
    \cup {Path(k, r) : k \in EntryKinds, r \in BOOLEAN}

\* the calls of dispatch that pass a repoPath to the git connector
GitCalls ==
  {"git_commit", "git_diff", "git_diff analyzeBreaking", "git_branch create",
   "git_branch list", "git_pr", "git_log", "git_status"}

\* process.cwd()
Cwd == [kind |-> "string", at |-> "cwd", relative |-> FALSE]

\* path.resolve(provided): the same entry, named absolutely
resolve(p) == [p EXCEPT !.relative = FALSE]

\* fs.existsSync(path.join(p, '.git')) and fs.existsSync(p)
existsDotGit(p) == p.at \in {"repository", "worktree"}
existsSync(p) == p.at # "missing"

resolveRepoPath(provided) ==
  IF provided.kind = "string"
  THEN IF existsDotGit(resolve(provided)) THEN resolve(provided)
       ELSE IF existsSync(resolve(provided)) THEN resolve(provided)
       ELSE Cwd
  ELSE Cwd

\* the repoPath arguments of the connector functions the call reaches
connectorPaths(tool, provided) ==
  IF tool = "git_diff analyzeBreaking"
  THEN << resolveRepoPath(provided), resolveRepoPath(provided) >>
  ELSE << resolveRepoPath(provided) >>

InitRepo ==
  /\ ChatIdle
  /\ productionSafeMode = FALSE
  /\ clients = [sv \in ServerIds |-> "none"]
  /\ probe = NoProbe
  /\ StoreIdle
  /\ ClientIdle
  /\ orch = NoOrch
  /\ MetricsIdle
  /\ ManagerIdle
  /\ fed = NoFed
  /\ conv = NoConv
  /\ stream = NoStream
  /\ kids = NoKids
  /\ \E provided \in RepoPathArgs :
       repo = [NoRepo EXCEPT !.state = "ready", !.provided = provided]

outsideRepo == << chatVars, probe, storeVars, clientVars, orch, metricsVars, managerVars,
                  fed, conv, stream, kids >>

\* dispatch(toolName, args) of a git tool, up to the call of the connector
GitDispatch(tool) ==
  /\ repo.state = "ready"
  /\ repo' = [repo EXCEPT !.state = "called", !.tool = tool,
                          !.passed = connectorPaths(tool, repo.provided)]
  /\ UNCHANGED outsideRepo

NextRepo == \E tool \in GitCalls : GitDispatch(tool)

SpecRepo == InitRepo /\ [][NextRepo]_vars

\* ------------------------------------------------------------------------
\* C37: for every git tool that takes a repoPath, the path passed to the
\* git connector is the supplied path only if it exists, is a directory and
\* is a repository; if the supplied path is missing, is not a directory or
\* is not a repository, the working directory is passed, and no error is
\* reported.
\* ------------------------------------------------------------------------
C37_RepoPathOrWorkingDirectory ==
  repo.state = "called" =>
    /\ repo.error = NoError
    /\ \A i \in 1..Len(repo.passed) :
         repo.passed[i] =
           IF repo.provided.kind = "string" /\ repo.provided.at \in {"repository", "worktree"}
           THEN [repo.provided EXCEPT !.relative = FALSE]
           ELSE Cwd

\* ------------------------------------------------------------------------
\* MCPServerManager.connectServer (manager.ts) for one server id: every call
\* makes a new MCPServerClient, whose connect() spawns a child. A call is
\* [child, state]: the child runs, was killed or has exited, and the call
\* awaits connect(), has put its client into the map, or has failed.
\* kids.client is the call whose client the map holds, 0 for none.
\* ------------------------------------------------------------------------
MaxChildren == 3       \* most connectServer calls for the id

\* existing.disconnect() and clients.delete(id), when the map has a client
disconnectExisting(k) ==
  IF k.client = 0 THEN k
  ELSE [k EXCEPT !.calls[k.client].child = "killed", !.client = 0]

\* connectServer(config) up to await client.connect(), called by
\* reconnectServer, updateServer, addServer or connectAll
KidsConnectServer ==
  /\ Len(kids.calls) < MaxChildren
  /\ kids' = [disconnectExisting(kids) EXCEPT
                !.calls = Append(@, [child |-> "running", state |-> "handshake"])]
  /\ UNCHANGED << chatVars, probe, storeVars, clientVars, orch, metricsVars, managerVars,
                  fed, conv, stream, repo >>

\* connect() of a call ends: clients.set(id, client), or the catch block
\* with errors.set(id, message)
KidsHandshakeEnds(i, o) ==
  /\ i \in 1..Len(kids.calls)
  /\ kids.calls[i].state = "handshake"
  /\ o = "timeout" \/ kids.calls[i].child # "killed"
  /\ kids' = IF o = "ok"
             THEN [kids EXCEPT !.calls[i].state = "set", !.client = i]
             ELSE [kids EXCEPT !.calls[i].state = "failed"]
  /\ UNCHANGED << chatVars, probe, storeVars, clientVars, orch, metricsVars, managerVars,
                  fed, conv, stream, repo >>

\* a child ends by itself
KidsChildExit(i) ==
  /\ i \in 1..Len(kids.calls)
  /\ kids.calls[i].child = "running"
  /\ kids' = [kids EXCEPT !.calls[i].child = "exited"]
  /\ UNCHANGED << chatVars, probe, storeVars, clientVars, orch, metricsVars, managerVars,
                  fed, conv, stream, repo >>

\* removeServer(id), or updateServer(id, { enabled: false })
KidsRemoveServer ==
  /\ kids.client # 0
  /\ kids' = disconnectExisting(kids)
  /\ UNCHANGED << chatVars, probe, storeVars, clientVars, orch, metricsVars, managerVars,
                  fed, conv, stream, repo >>

InitKids ==
  /\ ChatIdle
  /\ productionSafeMode = FALSE
  /\ clients = [sv \in ServerIds |-> "none"]
  /\ probe = NoProbe
  /\ StoreIdle
  /\ ClientIdle
  /\ RestIdle

NextKids ==
  \/ KidsConnectServer
  \/ \E i \in 1..MaxChildren, o \in Outcomes : KidsHandshakeEnds(i, o)
  \/ \E i \in 1..MaxChildren : KidsChildExit(i)
  \/ KidsRemoveServer

SpecKids == InitKids /\ [][NextKids]_vars

\* ------------------------------------------------------------------------
\* C38: for a server id at most one child process spawned by the manager is
\* alive, and when no connect() is awaited every live child is the child of
\* the client the map holds for the id: a failed or timed-out handshake, a
\* reconnect, and overlapping connectServer calls leave no running child
\* that the manager can no longer disconnect.
\* ------------------------------------------------------------------------
C38_NoOrphanChild ==
  LET live == {i \in 1..Len(kids.calls) : kids.calls[i].child = "running"}
  IN  /\ Cardinality(live) <= 1
      /\ (\A i \in 1..Len(kids.calls) : kids.calls[i].state # "handshake")
           => \A i \in live : kids.client = i

\* ------------------------------------------------------------------------
\* MCPServerClient with timers that run: the client of SpecClient, where a
\* request is issued only while its deadline is an instant of the clock and
\* at most four requests are made, time passes and a due setTimeout callback
\* is run.
\* ------------------------------------------------------------------------
LiveRequests == {1, 2, 3, 4}    \* the requests made: the handshake and two calls
InHorizon == Deadline(time) \in TimePoints /\ Len(promises) + 1 \in LiveRequests

ConnectStartInHorizon == InHorizon /\ ConnectStart
ConnectInitializedInHorizon == InHorizon /\ ConnectInitialized
CallToolInHorizon == InHorizon /\ CallTool

NextClientLive ==
  \/ ConnectStartInHorizon
  \/ ConnectInitializedInHorizon
  \/ ConnectListed
  \/ ConnectFails
  \/ CallToolInHorizon
  \/ \E id \in 1..MaxRequests, kind \in {"result", "error"} : Line(id, kind)
  \/ \E id \in 1..MaxRequests : Timeout(id)
  \/ \E t \in TimePoints : Tick(t)
  \/ Disconnect
  \/ ChildExit

SpecClientLive ==
  /\ InitClient
  /\ [][NextClientLive]_vars
  /\ WF_vars(\E t \in TimePoints : Tick(t))
  /\ \A id \in 1..MaxRequests : WF_vars(Timeout(id))

\* the requests that were sent: those that got an id
Sent == {i \in 1..Len(promises) : promises[i].id # 0}

\* ------------------------------------------------------------------------
\* C39: the ids of the requests of a client are unique and strictly
\* increasing; the pending table holds exactly the ids of the requests that
\* were sent and are not yet settled; a request is settled once, and
\* eventually: by its response, by its timeout after 30 s, or by
\* disconnect; the exit of the child alone settles nothing and leaves the
\* pending requests to their timeouts, and a late response or a late timer
\* for a settled id changes nothing.
\* ------------------------------------------------------------------------
C39_RequestsSettleOnce ==
  /\ [](/\ \A i, j \in Sent : i < j => promises[i].id < promises[j].id
        /\ \A i \in Sent : promises[i].id < idCounter
        /\ pendingTable = {promises[i].id : i \in {j \in Sent : promises[j].state = "pending"}})
  /\ [][ /\ \A i \in 1..Len(promises) :
             /\ promises[i].state # "pending" => promises'[i] = promises[i]
             /\ (promises[i].state = "pending" /\ promises'[i].state # "pending") =>
                  \/ lastLine' = [id |-> promises[i].id, kind |-> "result"]
                       /\ promises'[i].state = "fulfilled"
                  \/ lastLine' = [id |-> promises[i].id, kind |-> "error"]
                       /\ promises'[i].state = "rejected"
                  \/ TimedOut(promises'[i]) /\ time >= promises[i].issuedAt + 30
                  \/ promises'[i].error = Disconnected /\ proc # "null" /\ proc' = "null"
         /\ (child = "running" /\ child' = "exited") =>
              UNCHANGED << promises, pendingTable, timers >>
      ]_vars
  /\ \A i \in 1..MaxRequests :
       (i <= Len(promises) /\ promises[i].state = "pending")
         ~> (i <= Len(promises) /\ promises[i].state # "pending")

\* the child exited with a tools/call pending, and the request was failed
\* by its timeout; a response to it that arrived later changed nothing
C39_Witness ==
  \E i \in Sent :
    /\ promises[i].method = "tools/call"
    /\ child = "exited"
    /\ TimedOut(promises[i])
    /\ lastLine.id = promises[i].id
    /\ pendingTable = {}
    /\ timers = {}

\* the positions of the events of the request that end it
Terminal(evs) == {i \in 1..Len(evs) : evs[i].event \in {"agent:done", "agent:error"}}

\* ------------------------------------------------------------------------
\* C40: a chat request that passes validation emits agent:start before any
\* other event and ends with exactly one of agent:done and agent:error,
\* never both, after which it emits nothing; its HTTP response is a success
\* exactly when agent:done was emitted, and metrics are recorded once for
\* it when it ends with agent:done and not at all when it ends with
\* agent:error.
\* ------------------------------------------------------------------------
C40_OneTerminalEvent ==
  /\ [](/\ events # << >> =>
             /\ events[1].event = "agent:start"
             /\ \A i \in 2..Len(events) : events[i].event # "agent:start"
        /\ Cardinality(Terminal(events)) <= 1
        /\ Terminal(events) \subseteq {Len(events)}
        /\ metrics.totalRequests <= 1
        /\ (pc = "done" /\ req.message # "" /\ isValidRole(req.role)) =>
             /\ Terminal(events) = {Len(events)}
             /\ http.success <=> events[Len(events)].event = "agent:done"
             /\ events[Len(events)].event = "agent:done" =>
                  (http.status = 200 /\ metrics.totalRequests = 1)
             /\ events[Len(events)].event = "agent:error" =>
                  (http.status = 500 /\ metrics.totalRequests = 0)
        /\ pc # "done" => (Terminal(events) = {} /\ http = NoHttp))
  /\ [][Terminal(events) # {} => events' = events]_vars

\* a request in multi mode whose run made a tool call and then threw
C40_Witness ==
  /\ pc = "done"
  /\ req.mode = "multi"
  /\ Len(timeline.toolCalls) = 1
  /\ events[Len(events)].event = "agent:error"
  /\ http.status = 500
  /\ metrics.totalRequests = 0

====
